---- MODULE Spec2Model ----
(***************************************************************************)
(* The incremental streaming server of adb                                 *)
(* (src/adb/client/incremental_server.cpp): the frame reader               *)
(* (SkipToRequest, ReadRequest), the block sender (SendBlock, SendDone),   *)
(* the output batcher (Send, Flush), the prefetch queue (RunPrefetching)   *)
(* and the server loop (Serve).                                            *)
(*                                                                         *)
(* Serve is one thread; its only suspension point is the poll/read pair of *)
(* SkipToRequest.  pc is the position of that thread:                      *)
(*   "start"    before the handshake (SendOkay)                            *)
(*   "top"      head of the while(true) of Serve                           *)
(*   "scan"     head of the while(true) of SkipToRequest                   *)
(*   "poll"     inside adb_poll / adb_read                                 *)
(*   "dispatch" ReadRequest has returned, at `if (request)`                *)
(*   "prefetch" at the call of RunPrefetching                              *)
(*   "done"     Serve has returned                                         *)
(* Bytes are the integers 0..255.  A response record keeps its header as   *)
(* the bytes the code stores; its payload is kept by length only.          *)
(***************************************************************************)
EXTENDS Integers, Sequences, FiniteSets, TLC

(***************************************************************************)
(* Program constants                                                       *)
(***************************************************************************)
kBlockSize == 4096
kCompressedSizeMax == (kBlockSize * 95) \div 100
kCompressionNone == 0
kCompressionLZ4 == 1
LZ4_COMPRESSBOUND(n) == n + (n \div 255) + 16
kCompressBound == IF kBlockSize > LZ4_COMPRESSBOUND(kBlockSize)
                  THEN kBlockSize ELSE LZ4_COMPRESSBOUND(kBlockSize)
kReadBufferSize == 128 * 1024
kPrefetchBlocksPerIteration == 128
kChunkFlushSize == 31 * kBlockSize
kReadAhead == 7

SERVING_COMPLETE == 0
BLOCK_MISSING == 1
PREFETCH == 2
DESTROY == 3

\* INCR = 0x494e4352, as the four bytes be32toh reads it from
INCR == <<73, 78, 67, 82>>

sizeofINCR == 4
sizeofRequestCommand == 8
sizeofResponseHeader == 10
sizeofChunkHeader == 4

(***************************************************************************)
(* Bounds of the model                                                     *)
(***************************************************************************)
\* number of items (requests, text fragments) the device sends in a session
MaxItems == 2
\* number of poll timeouts that find bytes in the incoming buffer
MaxStalls == 1
\* block count of the large file (more than two prefetch passes)
BigBlocks == 258

(***************************************************************************)
(* Helpers                                                                 *)
(***************************************************************************)
Min(a, b) == IF a < b THEN a ELSE b

SubSeqFrom(s, k) == SubSeq(s, k, Len(s))

RECURSIVE Flatten(_)
Flatten(ss) == IF ss = <<>> THEN <<>> ELSE Head(ss) \o Flatten(Tail(ss))

(***************************************************************************)
(* Codec: toBigEndian / readBigEndian for the widths the server uses       *)
(***************************************************************************)
\* static_cast<uint16_t>(t) and static_cast<int16_t>(u)
Unsigned16(t) == t % 65536
Signed16(u) == IF u >= 32768 THEN u - 65536 ELSE u

\* the bytes, in memory order, of htobe16(u); the value be16toh reads from them
htobe16(u) == <<u \div 256, u % 256>>
be16toh(b) == b[1] * 256 + b[2]

\* the four big-endian bytes of 0 <= u < 2^31, and the value of four such bytes
BEBytes32(u) ==
    <<u \div 16777216, (u \div 65536) % 256, (u \div 256) % 256, u % 256>>
BEValue32(b) == ((b[1] * 256 + b[2]) * 256 + b[3]) * 256 + b[4]
Complement(b) == [i \in DOMAIN b |-> 255 - b[i]]

\* toBigEndian<int16_t>, toBigEndian<int32_t>: the bytes stored.  A uint32_t
\* does not fit the integers of TLC, so the bytes of
\* htobe32(static_cast<uint32_t>(t)) come from the two's complement of t.
toBigEndian16(t) == htobe16(Unsigned16(t))
toBigEndian32(t) == IF t >= 0 THEN BEBytes32(t) ELSE Complement(BEBytes32(-t - 1))
\* readBigEndian<int16_t>, readBigEndian<int32_t>
readBigEndian16(b) == Signed16(be16toh(b))
readBigEndian32(b) ==
    IF b[1] < 128 THEN BEValue32(b) ELSE -BEValue32(Complement(b)) - 1

\* a field stored without conversion: SendDone stores -1 and 0.  The host is
\* little-endian; both values have the same bytes in either order.
HostBytes16(t) == <<Unsigned16(t) % 256, Unsigned16(t) \div 256>>
HostBytes32(t) ==
    LET b == toBigEndian32(t) IN <<b[4], b[3], b[2], b[1]>>

\* the integer types toBigEndian and readBigEndian are claimed to serve
CodecTypes == {"int16_t", "uint16_t", "int32_t", "uint32_t", "int64_t", "uint64_t"}
SignedTypes == {"int16_t", "int32_t", "int64_t"}
\* sizeof(T)
SizeOf(T) == IF T \in {"int16_t", "uint16_t"} THEN 2
             ELSE IF T \in {"int32_t", "uint32_t"} THEN 4 ELSE 8

\* x >> (8 * k), arithmetic
RECURSIVE ShiftRight8(_, _)
ShiftRight8(x, k) == IF k = 0 THEN x ELSE ShiftRight8(x \div 256, k - 1)

\* the n bytes of t as the little-endian host keeps them in memory
HostBytesOf(t, n) == [i \in 1 .. n |-> ShiftRight8(t, i - 1) % 256]

\* toBigEndian<int64_t> and readBigEndian<int64_t>, for the values of an
\* int64_t that the integers of TLC hold (-2^31 < t < 2^31): the upper four
\* bytes are the sign extension
toBigEndian64(t) ==
    (IF t >= 0 THEN <<0, 0, 0, 0>> ELSE <<255, 255, 255, 255>>) \o toBigEndian32(t)
readBigEndian64(b) == readBigEndian32(SubSeq(b, 5, 8))

\* toBigEndian<T>(t): the bytes, in memory order, of the T it returns.  The
\* three `if constexpr` branches are the signed types; `else return t;`
toBigEndian(T, t) ==
    IF T = "int16_t" THEN toBigEndian16(t)
    ELSE IF T = "int32_t" THEN toBigEndian32(t)
    ELSE IF T = "int64_t" THEN toBigEndian64(t)
    ELSE HostBytesOf(t, SizeOf(T))

\* readBigEndian<T>(data); `else return T();`
readBigEndian(T, data) ==
    IF T = "int16_t" THEN readBigEndian16(data)
    ELSE IF T = "int32_t" THEN readBigEndian32(data)
    ELSE IF T = "int64_t" THEN readBigEndian64(data)
    ELSE 0

(***************************************************************************)
(* Files                                                                   *)
(***************************************************************************)
roundDownToBlockOffset(val) == val - (val % kBlockSize)
roundUpToBlockOffset(val) == roundDownToBlockOffset(val + kBlockSize - 1)
numBytesToNumBlocks(bytes) == roundUpToBlockOffset(bytes) \div kBlockSize
blockIndexToOffset(blockIdx) == blockIdx * kBlockSize

(***************************************************************************)
(* State                                                                   *)
(***************************************************************************)
VARIABLES
    pc,                \* position of the Serve thread
    result,            \* return value of Serve: "none" until it returns,
                       \* "fault" when the process faulted instead
    files_,            \* file table: id -> [id, size] (fixed at construction)
    sentBlocks,        \* File::sentBlocks: id -> (block index -> BOOLEAN)
    sentBlocksCount,   \* File::sentBlocksCount: id -> count
    buffer_,           \* incoming data buffer (bytes)
    prefetches_,       \* deque of PrefetchState
    compressed_, uncompressed_, sentSize_,
    pendingBlocks_,    \* [size: bytes in the vector, recs: the records in it]
    servingComplete_,
    prefetchedFiles, doneSent, missesCount, missesSent,   \* locals of Serve
    blocking,          \* local of Serve: argument of the current ReadRequest
    request,           \* what ReadRequest returned (has = FALSE: nullopt)
    \* ---- environment
    inflight,          \* bytes the device has sent and the server has not read
    connAlive,         \* FALSE once writes to adb_fd_ fail
    badBlocks,         \* <<file id, block index>> whose pread fails now
    lz4Full,           \* id -> LZ4 output size of a full block of that file
    faults,            \* blocks whose pread may fail in this session
    breaks,            \* whether writes to adb_fd_ may fail in this session
    readSizes,         \* the byte counts one adb_read may deliver in this session
    \* ---- observation (history) variables
    wire,              \* writes issued on adb_fd_, in order
    log,               \* bytes written to output_fd_ (without the padding)
    logPad,            \* 0 bytes written to output_fd_ after them: the bytes
                       \* buffer_.resize(kReadBufferSize) added before a read
                       \* that failed
    handed,            \* records passed to Send, in call order
    inbound,           \* bytes read from adb_fd_ so far
    reqsReturned,      \* requests ReadRequest decoded from the stream
    scDispatched,      \* a SERVING_COMPLETE request has been dispatched
    lastPoll,          \* outcome of the latest poll/read
    missLog,           \* valid BLOCK_MISSING dispatched: <<file id, block idx, result>>
    lastMiss,          \* what the latest dispatch did, for a BLOCK_MISSING
    stalls,            \* poll timeouts that found bytes in buffer_
    passErrors,        \* <<file id, block index>> of the "Failed to send block"
                       \* lines of RunPrefetching
    \* ---- the codec on its own
    codec              \* one value taken through toBigEndian and readBigEndian:
                       \* [type, x, stage, bytes, back]

vars == <<pc, result, files_, sentBlocks, sentBlocksCount, buffer_, prefetches_,
          compressed_, uncompressed_, sentSize_, pendingBlocks_, servingComplete_,
          prefetchedFiles, doneSent, missesCount, missesSent, blocking, request,
          inflight, connAlive, badBlocks, lz4Full, faults, breaks, readSizes,
          wire, log, logPad, handed, inbound, reqsReturned, scDispatched,
          lastPoll, missLog, lastMiss, stalls, passErrors, codec>>

FileIds == DOMAIN files_
\* (NumBlocks) f.sentBlocks.size()
NumBlocksOf(m, fileId) == Cardinality(DOMAIN m.sentBlocks[fileId])

\* The part of the state that SendBlock, Send and Flush read and write.
Mem ==
    [sentBlocks |-> sentBlocks, sentBlocksCount |-> sentBlocksCount,
     compressed_ |-> compressed_, uncompressed_ |-> uncompressed_,
     sentSize_ |-> sentSize_, pendingBlocks_ |-> pendingBlocks_,
     wire |-> wire, handed |-> handed, passErrors |-> passErrors]

SetMem(m) ==
    /\ sentBlocks' = m.sentBlocks
    /\ sentBlocksCount' = m.sentBlocksCount
    /\ compressed_' = m.compressed_
    /\ uncompressed_' = m.uncompressed_
    /\ sentSize_' = m.sentSize_
    /\ pendingBlocks_' = m.pendingBlocks_
    /\ wire' = m.wire
    /\ handed' = m.handed
    /\ passErrors' = m.passErrors

EmptyPending == [size |-> 0, recs |-> <<>>]

(***************************************************************************)
(* Output batcher: Send, Flush                                             *)
(***************************************************************************)
\* the ChunkHeader Flush stores in front of the pending bytes
ChunkHeaderOf(pending) == toBigEndian32(pending.size - sizeofChunkHeader)

\* mutant of Flush: the vector is written whether or not it holds anything
FlushAlways(m) ==
    [m EXCEPT
       !.wire = Append(@, [kind |-> "chunk",
                           header |-> ChunkHeaderOf(m.pendingBlocks_),
                           recs |-> m.pendingBlocks_.recs,
                           bytes |-> m.pendingBlocks_.size,
                           ok |-> connAlive]),
       !.sentSize_ = @ + m.pendingBlocks_.size,
       !.pendingBlocks_ = EmptyPending]

\* mutant of Flush: a chunk whose write failed is kept for another attempt
FlushKeepsFailed(m) ==
    IF m.pendingBlocks_.size = 0 THEN m
    ELSE IF connAlive
    THEN [m EXCEPT
            !.wire = Append(@, [kind |-> "chunk",
                                header |-> toBigEndian32(m.pendingBlocks_.size
                                                         - sizeofChunkHeader),
                                recs |-> m.pendingBlocks_.recs,
                                bytes |-> m.pendingBlocks_.size,
                                ok |-> TRUE]),
            !.sentSize_ = @ + m.pendingBlocks_.size,
            !.pendingBlocks_ = [size |-> 0, recs |-> <<>>]]
    ELSE [m EXCEPT
            !.wire = Append(@, [kind |-> "chunk",
                                header |-> toBigEndian32(m.pendingBlocks_.size
                                                         - sizeofChunkHeader),
                                recs |-> m.pendingBlocks_.recs,
                                bytes |-> m.pendingBlocks_.size,
                                ok |-> FALSE])]

Flush(m) ==
    IF m.pendingBlocks_.size = 0 THEN m
    ELSE [m EXCEPT
            !.wire = Append(@, [kind |-> "chunk",
                                header |-> ChunkHeaderOf(m.pendingBlocks_),
                                recs |-> m.pendingBlocks_.recs,
                                bytes |-> m.pendingBlocks_.size,
                                ok |-> connAlive]),
            !.sentSize_ = @ + m.pendingBlocks_.size,
            !.pendingBlocks_ = EmptyPending]

\* mutant of MustFlush: the flush argument is ignored
MustFlushSizeOnly(flush, size) == size > kChunkFlushSize

\* `if (flush || pendingBlocks_.size() > kChunkFlushSize)`
MustFlush(flush, size) == flush \/ size > kChunkFlushSize

Send(m, rec, flush) ==
    LET p0 == IF m.pendingBlocks_.size = 0
              THEN [size |-> sizeofChunkHeader, recs |-> <<>>]
              ELSE m.pendingBlocks_
        p1 == [size |-> p0.size + rec.size, recs |-> Append(p0.recs, rec)]
        m1 == [m EXCEPT !.pendingBlocks_ = p1, !.handed = Append(@, rec)]
    IN  IF MustFlush(flush, p1.size) THEN Flush(m1) ELSE m1

(***************************************************************************)
(* Block sender: File::ReadBlock, SendBlock, SendDone                      *)
(***************************************************************************)
\* adb_pread of kBlockSize bytes at the block's offset: -1 on failure
ReadBlock(fileId, blockIdx) ==
    IF <<fileId, blockIdx>> \in badBlocks THEN -1
    ELSE Min(kBlockSize, files_[fileId].size - blockIndexToOffset(blockIdx))

\* the LZ4 block that holds srcSize bytes as one run of literals: a token,
\* the length bytes a run of 15 or more needs, and the bytes
LZ4LiteralRun(srcSize) ==
    srcSize + 1 + (IF srcSize >= 15 THEN ((srcSize - 15) \div 255) + 1 ELSE 0)

\* LZ4_compress_default(src, dst, srcSize, kCompressBound): the output size.
\* A block never compresses to more than its literal-only encoding.
LZ4_compress_default(fileId, srcSize) ==
    Min(lz4Full[fileId], LZ4LiteralRun(srcSize))

\* ReadBlock never sets *is_zip_compressed
isZipCompressed == FALSE

\* mutant of AlreadySent: the sent bit is never consulted
AlreadySentNever(m, fileId, blockIdx) == FALSE

\* `if (file.sentBlocks[blockIdx]) return SendResult::Skipped;`
AlreadySent(m, fileId, blockIdx) == m.sentBlocks[fileId][blockIdx]

\* mutant of MarkSent: the counter is bumped and the bit is left alone
MarkSentCountOnly(m, fileId, blockIdx) ==
    [m EXCEPT !.sentBlocksCount[fileId] = @ + 1]

\* `file.sentBlocks[blockIdx] = true; file.sentBlocksCount += 1;`
MarkSent(m, fileId, blockIdx) ==
    [m EXCEPT !.sentBlocks[fileId][blockIdx] = TRUE,
              !.sentBlocksCount[fileId] = @ + 1]

\* `int16_t compressedSize = 0; if (!isZipCompressed) compressedSize =
\* LZ4_compress_default(...)`, lz4out being what LZ4_compress_default returns
CompressedSizeOf(zip, lz4out) ==
    IF ~zip THEN Signed16(Unsigned16(lz4out)) ELSE 0

\* mutant of UseCompressed: the bound is inclusive
UseCompressedInclusive(compressedSize) ==
    compressedSize > 0 /\ compressedSize <= kCompressedSizeMax

\* `compressedSize > 0 && compressedSize < kCompressedSizeMax`
UseCompressed(compressedSize) ==
    compressedSize > 0 /\ compressedSize < kCompressedSizeMax

\* mutant of ReadFailed: the result of ReadBlock is not tested
ReadFailedNever(bytesRead) == FALSE

\* `if (bytesRead < 0)`
ReadFailed(bytesRead) == bytesRead < 0

SendBlock(m, fileId, blockIdx, flush) ==
    IF blockIdx >= NumBlocksOf(m, fileId) THEN [m |-> m, res |-> "Error"]
    ELSE IF AlreadySent(m, fileId, blockIdx) THEN [m |-> m, res |-> "Skipped"]
    ELSE
      LET bytesRead == ReadBlock(fileId, blockIdx) IN
      IF ReadFailed(bytesRead) THEN [m |-> m, res |-> "Error"]
      ELSE
        LET compressedSize ==
                CompressedSizeOf(isZipCompressed,
                                 LZ4_compress_default(fileId, bytesRead))
            lz4 == UseCompressed(compressedSize)
            blockSize == IF lz4 THEN compressedSize
                         ELSE Signed16(Unsigned16(bytesRead))
            header ==
                [file_id |-> toBigEndian16(fileId),
                 compression_type |->
                     toBigEndian16(IF lz4 THEN kCompressionLZ4 ELSE kCompressionNone),
                 block_idx |-> toBigEndian32(blockIdx),
                 block_size |-> toBigEndian16(blockSize),
                 size |-> sizeofResponseHeader + blockSize]
            m1 == [m EXCEPT !.compressed_ = IF lz4 THEN @ + 1 ELSE @,
                            !.uncompressed_ = IF lz4 THEN @ ELSE @ + 1]
            m2 == MarkSent(m1, fileId, blockIdx)
        IN  [m |-> Send(m2, header, flush), res |-> "Sent"]

\* the end-of-stream record: the fields are stored without toBigEndian
DoneHeader ==
    [file_id |-> HostBytes16(-1), compression_type |-> HostBytes16(0),
     block_idx |-> HostBytes32(0), block_size |-> HostBytes16(0),
     size |-> sizeofResponseHeader]

\* mutant of SendDone: the sentinel replaces what the batcher holds
SendDoneAlone(m) == Send([m EXCEPT !.pendingBlocks_ = EmptyPending], DoneHeader, TRUE)

\* SendDone(): the header is sent with flush = true
SendDone(m) == Send(m, DoneHeader, TRUE)

(***************************************************************************)
(* Prefetch queue: PrefetchState, RunPrefetching                           *)
(***************************************************************************)
\* PrefetchState(const File& f)
PrefetchStateFull(m, fileId) ==
    [file |-> fileId, overallIndex |-> 0, overallEnd |-> NumBlocksOf(m, fileId)]

\* mutant of PrefetchStateRange: the end is not limited to the block count
PrefetchStateRangeUnclamped(m, fileId, start, count) ==
    [file |-> fileId, overallIndex |-> start, overallEnd |-> start + count]

\* PrefetchState(const File& f, BlockIdx start, int count)
PrefetchStateRange(m, fileId, start, count) ==
    [file |-> fileId, overallIndex |-> start,
     overallEnd |-> Min(start + count, NumBlocksOf(m, fileId))]

\* mutant of PrefetchDone: the head is popped whenever its loop has ended
PrefetchDoneAlways(p) == TRUE

\* `bool done() const { return overallIndex >= overallEnd; }`
PrefetchDone(p) == p.overallIndex >= p.overallEnd

\* the condition of the for loop over a PrefetchState; s is
\* [m, p, blocksToSend]
PrefetchForCond(s) == s.blocksToSend > 0 /\ s.p.overallIndex < s.p.overallEnd

\* mutant of PrefetchForBody: every SendBlock consumes budget, whatever it
\* returns
PrefetchForBodyCountsAll(s) ==
    LET r == SendBlock(s.m, files_[s.p.file].id, s.p.overallIndex, FALSE)
    IN  [m |-> IF r.res = "Error"
               THEN [r.m EXCEPT !.passErrors =
                                   @ \cup {<<files_[s.p.file].id, s.p.overallIndex>>}]
               ELSE r.m,
         p |-> [s.p EXCEPT !.overallIndex = @ + 1],
         blocksToSend |-> s.blocksToSend - 1]

\* mutant of PrefetchForBody: an Error ends the pass with the cursor on the
\* block that failed
PrefetchForBodyStopsOnError(s) ==
    LET r == SendBlock(s.m, files_[s.p.file].id, s.p.overallIndex, FALSE)
    IN  IF r.res = "Error"
        THEN [m |-> [r.m EXCEPT !.passErrors =
                                   @ \cup {<<files_[s.p.file].id, s.p.overallIndex>>}],
              p |-> s.p,
              blocksToSend |-> 0]
        ELSE [m |-> r.m,
              p |-> [s.p EXCEPT !.overallIndex = @ + 1],
              blocksToSend |-> IF r.res = "Sent" THEN s.blocksToSend - 1
                               ELSE s.blocksToSend]

\* the body of that loop and its `++i`
PrefetchForBody(s) ==
    LET r == SendBlock(s.m, files_[s.p.file].id, s.p.overallIndex, FALSE)
    IN  [m |-> IF r.res = "Error"
               THEN [r.m EXCEPT !.passErrors =
                                   @ \cup {<<files_[s.p.file].id, s.p.overallIndex>>}]
               ELSE r.m,
         p |-> [s.p EXCEPT !.overallIndex = @ + 1],
         blocksToSend |-> IF r.res = "Sent" THEN s.blocksToSend - 1
                          ELSE s.blocksToSend]

\* up to n passes through the loop, one after the other, ending early when
\* the condition fails
RECURSIVE PrefetchForPasses(_, _)
PrefetchForPasses(s, n) ==
    IF n <= 0 \/ ~PrefetchForCond(s) THEN s
    ELSE IF n = 1 THEN PrefetchForBody(s)
    ELSE PrefetchForPasses(PrefetchForPasses(s, n \div 2), n - (n \div 2))

\* the for loop over one PrefetchState: [m, p, blocksToSend] after it.  Each
\* pass advances overallIndex, so overallEnd - overallIndex passes end it.
PrefetchFor(m, p, blocksToSend) ==
    PrefetchForPasses([m |-> m, p |-> p, blocksToSend |-> blocksToSend],
                      p.overallEnd - p.overallIndex)

\* the while loop of RunPrefetching: [m, q] after it
RECURSIVE PrefetchWhile(_, _, _)
PrefetchWhile(m, q, blocksToSend) ==
    IF ~(q # <<>> /\ blocksToSend > 0) THEN [m |-> m, q |-> q]
    ELSE LET r == PrefetchFor(m, Head(q), blocksToSend)
         IN  PrefetchWhile(r.m,
                           IF PrefetchDone(r.p) THEN Tail(q) ELSE <<r.p>> \o Tail(q),
                           r.blocksToSend)

\* mutant of RunPrefetching: a second pass follows the first at once
RunPrefetchingTwice(m, q) ==
    LET r == PrefetchWhile(m, q, kPrefetchBlocksPerIteration)
    IN  PrefetchWhile(r.m, r.q, kPrefetchBlocksPerIteration)

\* `int blocksToSend = kPrefetchBlocksPerIteration; while (...) {...}`
RunPrefetching(m, q) == PrefetchWhile(m, q, kPrefetchBlocksPerIteration)

(***************************************************************************)
(* Frame reader: SkipToRequest, ReadRequest                                *)
(***************************************************************************)
NoRequest == [has |-> FALSE, request_type |-> 0, file_id |-> 0, block_idx |-> 0]
\* `return {{DESTROY}};`: the other fields are value-initialized
DestroyRequest == [has |-> TRUE, request_type |-> DESTROY, file_id |-> 0, block_idx |-> 0]

\* the decoding at the end of ReadRequest; commandBuf is the 8 request bytes
DecodeRequest(commandBuf) ==
    [has |-> TRUE,
     request_type |-> readBigEndian16(SubSeq(commandBuf, 1, 2)),
     file_id |-> readBigEndian16(SubSeq(commandBuf, 3, 4)),
     block_idx |-> readBigEndian32(SubSeq(commandBuf, 5, 8))]

\* mutant of ScanBound: the search stops 8 bytes before the end
ScanBoundEarly(bcur, bsize) == bcur + 8 < bsize

\* the loop condition `bcur + 4 < bsize`
ScanBound(bcur, bsize) == bcur + 4 < bsize

\* the for loop looking for the INCR magic: [bcur, magic_found] after it
RECURSIVE ScanMagic(_, _)
ScanMagic(buf, bcur) ==
    IF ~ScanBound(bcur, Len(buf)) THEN [bcur |-> bcur, magic_found |-> FALSE]
    ELSE IF SubSeq(buf, bcur + 1, bcur + 4) = INCR
         THEN [bcur |-> bcur, magic_found |-> TRUE]
         ELSE ScanMagic(buf, bcur + 1)

\* erase_buffer_head(count)
erase_buffer_head(buf, count) == SubSeqFrom(buf, count + 1)

\* mutant of BufferAfterTimeout: the bytes written to output_fd_ are erased
BufferAfterTimeoutErased(buf) == <<>>

\* the buffer after the timeout branch (`res != 1`) has written it to output_fd_
BufferAfterTimeout(buf) == buf

\* mutant of TimeoutTerminal: the kind of wait is not consulted
TimeoutTerminalAnyWait(blk, sc) == sc

\* `blocking && servingComplete_`
TimeoutTerminal(blk, sc) == blk /\ sc

\* SkipToRequest from the top of its loop to `return true` or to adb_poll
Scan ==
    /\ pc = "scan"
    /\ LET s == ScanMagic(buffer_, 0)
           buf1 == erase_buffer_head(buffer_, s.bcur)
       IN  /\ log' = log \o SubSeq(buffer_, 1, s.bcur)
           /\ IF s.magic_found /\ Len(buf1) >= sizeofRequestCommand + sizeofINCR
              THEN /\ request' = DecodeRequest(SubSeq(buf1, sizeofINCR + 1,
                                                     sizeofINCR + sizeofRequestCommand))
                   /\ buffer_' = erase_buffer_head(buf1, sizeofRequestCommand + sizeofINCR)
                   /\ reqsReturned' = Append(reqsReturned, request')
                   /\ pc' = "dispatch"
              ELSE /\ buffer_' = buf1
                   /\ pc' = "poll"
                   /\ UNCHANGED <<request, reqsReturned>>
    /\ UNCHANGED <<result, files_, codec, sentBlocks, sentBlocksCount, passErrors, prefetches_,
                   compressed_, uncompressed_, sentSize_, pendingBlocks_,
                   servingComplete_, prefetchedFiles, doneSent, missesCount,
                   missesSent, blocking, inflight, connAlive, badBlocks, lz4Full,
                   faults, breaks, readSizes, wire, logPad, handed, inbound, scDispatched,
                   lastPoll, missLog, lastMiss, stalls>>

\* adb_poll returns 0
PollTimeout ==
    /\ pc = "poll"
    /\ buffer_ # <<>> => stalls < MaxStalls
    /\ stalls' = IF buffer_ # <<>> THEN stalls + 1 ELSE stalls
    /\ log' = log \o buffer_
    /\ buffer_' = BufferAfterTimeout(buffer_)
    /\ request' = IF TimeoutTerminal(blocking, servingComplete_)
                  THEN DestroyRequest ELSE NoRequest
    /\ lastPoll' = IF TimeoutTerminal(blocking, servingComplete_) THEN "timeout_terminal"
                   ELSE IF blocking THEN "timeout_blocking"
                   ELSE "timeout_nonblocking"
    /\ pc' = "dispatch"
    /\ UNCHANGED <<result, files_, codec, sentBlocks, sentBlocksCount, passErrors, prefetches_,
                   compressed_, uncompressed_, sentSize_, pendingBlocks_,
                   servingComplete_, prefetchedFiles, doneSent, missesCount,
                   missesSent, blocking, inflight, connAlive, badBlocks, lz4Full,
                   faults, breaks, readSizes, wire, logPad, handed, inbound, reqsReturned,
                   scDispatched, missLog, lastMiss>>

\* adb_poll returns a negative value
PollFail ==
    /\ pc = "poll"
    /\ log' = log \o buffer_
    /\ request' = DestroyRequest
    /\ lastPoll' = "pollfail"
    /\ pc' = "dispatch"
    /\ UNCHANGED <<result, files_, codec, sentBlocks, sentBlocksCount, passErrors, buffer_, prefetches_,
                   compressed_, uncompressed_, sentSize_, pendingBlocks_,
                   servingComplete_, prefetchedFiles, doneSent, missesCount,
                   missesSent, blocking, inflight, connAlive, badBlocks, lz4Full,
                   faults, breaks, readSizes, wire, logPad, handed, inbound, reqsReturned,
                   scDispatched, missLog, lastMiss, stalls>>

\* adb_poll returns 1 and adb_read returns r > 0 bytes
ReadData ==
    /\ pc = "poll"
    /\ \E r \in readSizes :
         /\ r >= 1
         /\ r <= Len(inflight)
         /\ r <= kReadBufferSize - Len(buffer_)
         /\ buffer_' = buffer_ \o SubSeq(inflight, 1, r)
         /\ inbound' = inbound \o SubSeq(inflight, 1, r)
         /\ inflight' = SubSeqFrom(inflight, r + 1)
    /\ lastPoll' = "data"
    /\ pc' = "scan"
    /\ UNCHANGED <<result, files_, codec, sentBlocks, sentBlocksCount, passErrors, prefetches_,
                   compressed_, uncompressed_, sentSize_, pendingBlocks_,
                   servingComplete_, prefetchedFiles, doneSent, missesCount,
                   missesSent, blocking, request, connAlive, badBlocks, lz4Full,
                   faults, breaks, readSizes, wire, log, logPad, handed, reqsReturned,
                   scDispatched, missLog, lastMiss, stalls>>

\* adb_poll returns 1 and adb_read returns r <= 0: end of stream once the
\* device's bytes are all read, a read error otherwise
ReadClosed ==
    /\ pc = "poll"
    /\ log' = log \o buffer_
    /\ logPad' = kReadBufferSize - Len(buffer_)
    /\ request' = DestroyRequest
    /\ lastPoll' = IF inflight = <<>> THEN "eof" ELSE "readerror"
    /\ pc' = "dispatch"
    /\ UNCHANGED <<result, files_, codec, sentBlocks, sentBlocksCount, passErrors, buffer_, prefetches_,
                   compressed_, uncompressed_, sentSize_, pendingBlocks_,
                   servingComplete_, prefetchedFiles, doneSent, missesCount,
                   missesSent, blocking, inflight, connAlive, badBlocks, lz4Full,
                   faults, breaks, readSizes, wire, handed, inbound, reqsReturned,
                   scDispatched, missLog, lastMiss, stalls>>

(***************************************************************************)
(* Server loop: Serve                                                      *)
(***************************************************************************)
OkayWrite == [kind |-> "okay", header |-> <<>>, recs |-> <<>>, bytes |-> 4, ok |-> TRUE]

\* mutant of Handshake: the result of SendOkay is not tested
HandshakeIgnoresFailure ==
    /\ pc = "start"
    /\ wire' = Append(wire, [kind |-> "okay", header |-> <<>>, recs |-> <<>>,
                             bytes |-> 4, ok |-> connAlive])
    /\ pc' = "top"
    /\ UNCHANGED <<result, files_, codec, sentBlocks, sentBlocksCount, passErrors, buffer_, prefetches_,
                   compressed_, uncompressed_, sentSize_, pendingBlocks_,
                   servingComplete_, prefetchedFiles, doneSent, missesCount,
                   missesSent, blocking, request, inflight, connAlive, badBlocks,
                   lz4Full, faults, breaks, readSizes, log, logPad, handed, inbound,
                   reqsReturned, scDispatched, lastPoll, missLog, lastMiss, stalls>>

\* `if (!SendOkay(adb_fd_)) return false;`
Handshake ==
    /\ pc = "start"
    /\ IF connAlive
       THEN /\ wire' = Append(wire, OkayWrite)
            /\ pc' = "top"
            /\ UNCHANGED result
       ELSE /\ pc' = "done"
            /\ result' = FALSE
            /\ UNCHANGED wire
    /\ UNCHANGED <<files_, codec, sentBlocks, sentBlocksCount, passErrors, buffer_, prefetches_,
                   compressed_, uncompressed_, sentSize_, pendingBlocks_,
                   servingComplete_, prefetchedFiles, doneSent, missesCount,
                   missesSent, blocking, request, inflight, connAlive, badBlocks,
                   lz4Full, faults, breaks, readSizes, log, logPad, handed, inbound,
                   reqsReturned, scDispatched, lastPoll, missLog, lastMiss, stalls>>

\* mutant of AllFilesSent: a file counts as loaded once a block of it was sent
AllFilesSentSomething(m) ==
    \A f \in FileIds : /\ m.sentBlocksCount[f] = NumBlocksOf(m, f)
                       /\ m.sentBlocksCount[f] > 0

\* mutant of AllFilesSent: a file counts as loaded with one block to go
AllFilesSentButOne(m) ==
    \A f \in FileIds : m.sentBlocksCount[f] >= NumBlocksOf(m, f) - 1

\* the std::all_of of the completion check
AllFilesSent(m) ==
    \A f \in FileIds : m.sentBlocksCount[f] = NumBlocksOf(m, f)

\* mutant of CompletionCheck: doneSent is not consulted
CompletionCheckRepeats(done, q, m) == q = <<>> /\ AllFilesSent(m)

\* `!doneSent && prefetches_.empty() && std::all_of(...)`
CompletionCheck(done, q, m) == ~done /\ q = <<>> /\ AllFilesSent(m)

\* mutant of FlushBeforeRead: the batcher is not flushed before a blocking read
FlushBeforeReadNever(blk, m) == m

\* `if (blocking) { Flush(); }`
FlushBeforeRead(blk, m) == IF blk THEN Flush(m) ELSE m

\* head of the loop of Serve, up to the call of ReadRequest
Top ==
    /\ pc = "top"
    /\ LET complete == CompletionCheck(doneSent, prefetches_, Mem)
           m1 == IF complete THEN SendDone(Mem) ELSE Mem
           blk == (prefetches_ = <<>>)
           m2 == FlushBeforeRead(blk, m1)
       IN  /\ SetMem(m2)
           /\ doneSent' = (doneSent \/ complete)
           /\ blocking' = blk
    /\ pc' = "scan"
    /\ UNCHANGED <<result, files_, codec, buffer_, prefetches_, servingComplete_,
                   prefetchedFiles, missesCount, missesSent, request, inflight,
                   connAlive, badBlocks, lz4Full, faults, breaks, readSizes, log, logPad,
                   inbound, reqsReturned, scDispatched, lastPoll, missLog, lastMiss, stalls>>

\* mutant of ValidMiss: the block index is not compared with the block count
ValidMissNoUpperBlock(m, fileId, blockIdx) ==
    ~(fileId < 0 \/ fileId >= Signed16(Unsigned16(Cardinality(FileIds)))
      \/ blockIdx < 0)

\* the range check of the BLOCK_MISSING case
ValidMiss(m, fileId, blockIdx) ==
    ~(fileId < 0 \/ fileId >= Signed16(Unsigned16(Cardinality(FileIds)))
      \/ blockIdx < 0 \/ blockIdx >= NumBlocksOf(m, fileId))

NoMiss == [valid |-> FALSE, file |-> 0, idx |-> 0, res |-> "none"]

\* what every case of the dispatch leaves alone; ReadRequest's result is consumed
DispatchFrame ==
    /\ pc = "dispatch"
    /\ request' = NoRequest
    /\ UNCHANGED <<files_, codec, buffer_, doneSent, blocking, inflight, connAlive,
                   badBlocks, lz4Full, faults, breaks, readSizes, log, logPad, inbound,
                   reqsReturned, lastPoll, stalls>>

\* nullopt: nothing is dispatched
DispatchNone ==
    /\ DispatchFrame
    /\ ~request.has
    /\ pc' = "prefetch"
    /\ lastMiss' = NoMiss
    /\ UNCHANGED <<result, sentBlocks, sentBlocksCount, passErrors, prefetches_, compressed_,
                   uncompressed_, sentSize_, pendingBlocks_, servingComplete_,
                   prefetchedFiles, missesCount, missesSent, wire, handed,
                   scDispatched, missLog>>

\* `case DESTROY: return true;`
DispatchDestroy ==
    /\ DispatchFrame
    /\ request.has /\ request.request_type = DESTROY
    /\ pc' = "done"
    /\ result' = TRUE
    /\ lastMiss' = NoMiss
    /\ UNCHANGED <<sentBlocks, sentBlocksCount, passErrors, prefetches_, compressed_,
                   uncompressed_, sentSize_, pendingBlocks_, servingComplete_,
                   prefetchedFiles, missesCount, missesSent, wire, handed,
                   scDispatched, missLog>>

\* mutant of DispatchServingComplete: the case returns like DESTROY
DispatchServingCompleteReturns ==
    /\ DispatchFrame
    /\ request.has /\ request.request_type = SERVING_COMPLETE
    /\ servingComplete_' = TRUE
    /\ scDispatched' = TRUE
    /\ pc' = "done"
    /\ result' = TRUE
    /\ lastMiss' = NoMiss
    /\ UNCHANGED <<sentBlocks, sentBlocksCount, passErrors, prefetches_, compressed_,
                   uncompressed_, sentSize_, pendingBlocks_, prefetchedFiles,
                   missesCount, missesSent, wire, handed, missLog>>

\* ServingComplete(): servingComplete_ = true, and the statistics are logged
DispatchServingComplete ==
    /\ DispatchFrame
    /\ request.has /\ request.request_type = SERVING_COMPLETE
    /\ servingComplete_' = TRUE
    /\ scDispatched' = TRUE
    /\ pc' = "prefetch"
    /\ lastMiss' = NoMiss
    /\ UNCHANGED <<result, sentBlocks, sentBlocksCount, passErrors, prefetches_, compressed_,
                   uncompressed_, sentSize_, pendingBlocks_, prefetchedFiles,
                   missesCount, missesSent, wire, handed, missLog>>

\* mutant of emplace_front: the state goes to the back of the queue
emplace_back_instead(q, p) == q \o <<p>>

\* `prefetches_.emplace_front(...)`
emplace_front(q, p) == <<p>> \o q

\* mutant of MissWasSent: every result but Error counts as a block sent
MissNotError(res) == res # "Error"

\* `else if (res == SendResult::Sent)`
MissWasSent(res) == res = "Sent"

\* `case BLOCK_MISSING:`
DispatchBlockMissing ==
    /\ DispatchFrame
    /\ request.has /\ request.request_type = BLOCK_MISSING
    /\ missesCount' = missesCount + 1
    /\ LET fileId == request.file_id
           blockIdx == request.block_idx
       IN  IF ~ValidMiss(Mem, fileId, blockIdx)
           THEN /\ lastMiss' = NoMiss
                /\ UNCHANGED <<sentBlocks, sentBlocksCount, passErrors, prefetches_, compressed_,
                               uncompressed_, sentSize_, pendingBlocks_, missesSent,
                               wire, handed, missLog>>
           ELSE LET r == SendBlock(Mem, fileId, blockIdx, TRUE) IN
                /\ SetMem(r.m)
                /\ missesSent' = IF MissWasSent(r.res) THEN missesSent + 1 ELSE missesSent
                /\ prefetches_' =
                       IF MissWasSent(r.res)
                       THEN emplace_front(prefetches_,
                                          PrefetchStateRange(r.m, fileId, blockIdx + 1,
                                                             kReadAhead))
                       ELSE prefetches_
                /\ missLog' = missLog \cup {<<fileId, blockIdx, r.res>>}
                /\ lastMiss' = [valid |-> TRUE, file |-> fileId, idx |-> blockIdx,
                                res |-> r.res]
    /\ pc' = "prefetch"
    /\ UNCHANGED <<result, servingComplete_, prefetchedFiles, scDispatched>>

\* mutant of DuplicatePrefetch: the result of the insert is not consulted
DuplicatePrefetchNever(seen, fileId) == FALSE

\* `!prefetchedFiles.insert(fileId).second`
DuplicatePrefetch(seen, fileId) == fileId \in seen

\* `files_[fileId]` with fileId >= files_.size() reads past the end of the
\* vector, which is undefined: the process faults, now or when the state
\* built from what is read there is used ("fault"), or what is read there
\* gives a PrefetchState with nothing to send ("garbage").
OutOfRangeOutcomes == {"fault", "garbage"}

\* `case PREFETCH:`
DispatchPrefetch ==
    /\ DispatchFrame
    /\ request.has /\ request.request_type = PREFETCH
    /\ lastMiss' = NoMiss
    /\ UNCHANGED <<sentBlocks, sentBlocksCount, passErrors, compressed_, uncompressed_,
                   sentSize_, pendingBlocks_, servingComplete_, missesCount,
                   missesSent, wire, handed, scDispatched, missLog>>
    /\ LET fileId == request.file_id IN
       IF fileId < 0 \/ DuplicatePrefetch(prefetchedFiles, fileId)
       THEN /\ pc' = "prefetch"
            /\ UNCHANGED <<result, prefetches_, prefetchedFiles>>
       ELSE /\ prefetchedFiles' = prefetchedFiles \cup {fileId}
            /\ IF fileId \in FileIds
               THEN /\ prefetches_' = Append(prefetches_, PrefetchStateFull(Mem, fileId))
                    /\ pc' = "prefetch"
                    /\ UNCHANGED result
               ELSE \E outcome \in OutOfRangeOutcomes :
                      IF outcome = "fault"
                      THEN /\ pc' = "fault"
                           /\ result' = "fault"
                           /\ UNCHANGED prefetches_
                      ELSE /\ prefetches_' =
                                 Append(prefetches_,
                                        [file |-> fileId, overallIndex |-> 0,
                                         overallEnd |-> 0])
                           /\ pc' = "prefetch"
                           /\ UNCHANGED result

\* mutant of DispatchInvalid: the default case returns like DESTROY
DispatchInvalidReturns ==
    /\ DispatchFrame
    /\ request.has
    /\ request.request_type \notin {DESTROY, SERVING_COMPLETE, BLOCK_MISSING, PREFETCH}
    /\ pc' = "done"
    /\ result' = TRUE
    /\ lastMiss' = NoMiss
    /\ UNCHANGED <<sentBlocks, sentBlocksCount, passErrors, prefetches_, compressed_,
                   uncompressed_, sentSize_, pendingBlocks_, servingComplete_,
                   prefetchedFiles, missesCount, missesSent, wire, handed,
                   scDispatched, missLog>>

\* the default case: the request is logged and dropped
DispatchInvalid ==
    /\ DispatchFrame
    /\ request.has
    /\ request.request_type \notin {DESTROY, SERVING_COMPLETE, BLOCK_MISSING, PREFETCH}
    /\ pc' = "prefetch"
    /\ lastMiss' = NoMiss
    /\ UNCHANGED <<result, sentBlocks, sentBlocksCount, passErrors, prefetches_, compressed_,
                   uncompressed_, sentSize_, pendingBlocks_, servingComplete_,
                   prefetchedFiles, missesCount, missesSent, wire, handed,
                   scDispatched, missLog>>

\* `if (request) { switch (request->request_type) ... }`
Dispatch ==
    \/ DispatchNone
    \/ DispatchDestroy
    \/ DispatchServingComplete
    \/ DispatchBlockMissing
    \/ DispatchPrefetch
    \/ DispatchInvalid

\* mutant of Prefetch: the loop body ends without its call of RunPrefetching
PrefetchNotRun ==
    /\ pc = "prefetch"
    /\ pc' = "top"
    /\ UNCHANGED <<result, files_, codec, sentBlocks, sentBlocksCount, passErrors, buffer_, prefetches_,
                   compressed_, uncompressed_, sentSize_, pendingBlocks_,
                   servingComplete_, prefetchedFiles, doneSent, missesCount,
                   missesSent, blocking, request, inflight, connAlive, badBlocks,
                   lz4Full, faults, breaks, readSizes, wire, log, logPad, handed,
                   inbound, reqsReturned, scDispatched, lastPoll, missLog, lastMiss,
                   stalls>>

\* `RunPrefetching();` at the end of the loop body
Prefetch ==
    /\ pc = "prefetch"
    /\ LET r == RunPrefetching(Mem, prefetches_)
       IN  /\ SetMem(r.m)
           /\ prefetches_' = r.q
    /\ pc' = "top"
    /\ UNCHANGED <<result, files_, codec, buffer_, servingComplete_, prefetchedFiles,
                   doneSent, missesCount, missesSent, blocking, request, inflight,
                   connAlive, badBlocks, lz4Full, faults, breaks, readSizes, log, logPad,
                   inbound, reqsReturned, scDispatched, lastPoll, missLog, lastMiss, stalls>>

(***************************************************************************)
(* Environment: the device, the transport and the disk                     *)
(***************************************************************************)
\* writes to adb_fd_ fail from now on
BreakConn ==
    /\ pc = "poll"
    /\ breaks
    /\ connAlive
    /\ connAlive' = FALSE
    /\ UNCHANGED <<pc, result, files_, codec, sentBlocks, sentBlocksCount, passErrors, buffer_,
                   prefetches_, compressed_, uncompressed_, sentSize_,
                   pendingBlocks_, servingComplete_, prefetchedFiles, doneSent,
                   missesCount, missesSent, blocking, request, inflight, badBlocks,
                   lz4Full, faults, breaks, readSizes, wire, log, logPad, handed, inbound,
                   reqsReturned, scDispatched, lastPoll, missLog, lastMiss, stalls>>

\* pread of a block starts or stops failing
DiskFault ==
    /\ pc = "poll"
    /\ \E b \in faults :
         badBlocks' = IF b \in badBlocks THEN badBlocks \ {b} ELSE badBlocks \cup {b}
    /\ UNCHANGED <<pc, result, files_, codec, sentBlocks, sentBlocksCount, passErrors, buffer_,
                   prefetches_, compressed_, uncompressed_, sentSize_,
                   pendingBlocks_, servingComplete_, prefetchedFiles, doneSent,
                   missesCount, missesSent, blocking, request, inflight, connAlive,
                   lz4Full, faults, breaks, readSizes, wire, log, logPad, handed, inbound,
                   reqsReturned, scDispatched, lastPoll, missLog, lastMiss, stalls>>

\* the 12 bytes the device sends for one request
DeviceRequest(type, fileId, blockIdx) ==
    INCR \o toBigEndian16(type) \o toBigEndian16(fileId) \o toBigEndian32(blockIdx)

\* log text of the device: "x", "INC", "INCR"
TextX == <<120>>
TextINC == <<73, 78, 67>>
TextINCR == <<73, 78, 67, 82>>

\* The sessions explored.  Each gives the file table, the LZ4 output size of a
\* full block of each file, what the device may send, which preads may fail,
\* whether writes to the connection may fail, and the byte counts one read may
\* deliver.

\* one large compressible file: more than two prefetch passes, and no chunk
\* ever reaches the flush size
SessionBig ==
    [sizes |-> <<BigBlocks * kBlockSize - 100>>, lz4 |-> <<20>>,
     menu |-> {DeviceRequest(PREFETCH, 0, 0), DeviceRequest(BLOCK_MISSING, 0, 5),
               DeviceRequest(BLOCK_MISSING, 0, BigBlocks - 1),
               DeviceRequest(SERVING_COMPLETE, 0, 0)},
     faults |-> {}, breaks |-> TRUE, reads |-> {12, 24, 36, 48}]

\* one incompressible file of more than one prefetch pass: a pass fills
\* several chunks
SessionFlush ==
    [sizes |-> <<(BigBlocks \div 2 + 1) * kBlockSize>>, lz4 |-> <<4114>>,
     menu |-> {DeviceRequest(PREFETCH, 0, 0), DeviceRequest(BLOCK_MISSING, 0, 127),
               DeviceRequest(DESTROY, 0, 0)},
     faults |-> {}, breaks |-> FALSE, reads |-> {12, 24, 36, 48}]

\* misses on a two-block compressible file with a short last block, and an
\* empty file
SessionMiss ==
    [sizes |-> <<kBlockSize + 1, 0>>, lz4 |-> <<20, 20>>,
     menu |-> {DeviceRequest(BLOCK_MISSING, 0, 0), DeviceRequest(BLOCK_MISSING, 0, 1),
               DeviceRequest(BLOCK_MISSING, 0, 2), DeviceRequest(BLOCK_MISSING, -1, 0),
               DeviceRequest(BLOCK_MISSING, 1, 0),
               DeviceRequest(SERVING_COMPLETE, 0, 0)},
     faults |-> {<<0, 1>>}, breaks |-> TRUE, reads |-> {12, 24, 36, 48}]

\* prefetches of two files
SessionPrefetch ==
    [sizes |-> <<2 * kBlockSize, 9 * kBlockSize>>, lz4 |-> <<3890, 3891>>,
     menu |-> {DeviceRequest(PREFETCH, 0, 0), DeviceRequest(PREFETCH, 1, 0),
               DeviceRequest(PREFETCH, -1, 0), DeviceRequest(BLOCK_MISSING, 1, 0),
               DeviceRequest(DESTROY, 0, 0), DeviceRequest(4, 0, 0)},
     faults |-> {<<1, 1>>}, breaks |-> TRUE, reads |-> {12, 24, 36, 48}]

\* an incompressible file whose records fill a chunk to just under the flush
\* size, a small file, and a prefetch of a file that is not in the table
SessionEdge ==
    [sizes |-> <<30 * kBlockSize + 3769, kBlockSize>>, lz4 |-> <<4114, 20>>,
     menu |-> {DeviceRequest(PREFETCH, 0, 0), DeviceRequest(PREFETCH, 1, 0),
               DeviceRequest(PREFETCH, 2, 0)},
     faults |-> {}, breaks |-> FALSE, reads |-> {12, 24, 36, 48}]

\* the large file again: a miss near its end after a pass of a prefetch of
\* the whole file, with a block of the read-ahead that may be unreadable
SessionAhead ==
    [sizes |-> <<BigBlocks * kBlockSize - 100>>, lz4 |-> <<20>>,
     menu |-> {DeviceRequest(PREFETCH, 0, 0),
               DeviceRequest(BLOCK_MISSING, 0, BigBlocks - 4)},
     faults |-> {<<0, BigBlocks - 2>>}, breaks |-> FALSE, reads |-> {12, 24, 36, 48}]

\* a table of empty files only
SessionEmpty ==
    [sizes |-> <<0, 0>>, lz4 |-> <<20, 20>>,
     menu |-> {DeviceRequest(PREFETCH, 0, 0), DeviceRequest(BLOCK_MISSING, 1, 0),
               DeviceRequest(SERVING_COMPLETE, 0, 0), DeviceRequest(DESTROY, 0, 0),
               DeviceRequest(4, 0, 0)},
     faults |-> {}, breaks |-> FALSE, reads |-> {12, 24, 36, 48}]

\* log text between requests, delivered at any byte boundary
SessionText ==
    [sizes |-> <<kBlockSize>>, lz4 |-> <<20>>,
     menu |-> {TextX, TextINC, TextINCR, DeviceRequest(BLOCK_MISSING, 0, 0),
               DeviceRequest(SERVING_COMPLETE, 0, 0)},
     faults |-> {}, breaks |-> FALSE, reads |-> 1 .. (12 * (MaxItems + 1))]

Sessions ==
    {SessionBig, SessionFlush, SessionMiss, SessionPrefetch, SessionEdge,
     SessionEmpty, SessionText, SessionAhead}

\* the state after construction, in one of the sessions of S
InitOf(S) ==
    \E sc \in S :
    \E n \in 0 .. MaxItems :
    \E script \in [1 .. n -> sc.menu] :
        /\ pc = "start"
        /\ result = "none"
        /\ files_ = [f \in 0 .. (Len(sc.sizes) - 1) |-> [id |-> f, size |-> sc.sizes[f + 1]]]
        /\ sentBlocks = [f \in 0 .. (Len(sc.sizes) - 1) |->
                            [b \in 0 .. (numBytesToNumBlocks(sc.sizes[f + 1]) - 1) |-> FALSE]]
        /\ sentBlocksCount = [f \in 0 .. (Len(sc.sizes) - 1) |-> 0]
        /\ buffer_ = <<>>
        /\ prefetches_ = <<>>
        /\ compressed_ = 0
        /\ uncompressed_ = 0
        /\ sentSize_ = 0
        /\ pendingBlocks_ = EmptyPending
        \* servingComplete_ has no initializer: its first read is indeterminate
        /\ servingComplete_ \in BOOLEAN
        /\ prefetchedFiles = {}
        /\ doneSent = FALSE
        /\ missesCount = 0
        /\ missesSent = 0
        /\ blocking = FALSE
        /\ request = NoRequest
        /\ inflight = Flatten(script)
        /\ connAlive \in (IF sc.breaks THEN BOOLEAN ELSE {TRUE})
        /\ badBlocks = {}
        /\ lz4Full = [f \in 0 .. (Len(sc.sizes) - 1) |-> sc.lz4[f + 1]]
        /\ faults = sc.faults
        /\ breaks = sc.breaks
        /\ readSizes = sc.reads
        /\ wire = <<>>
        /\ log = <<>>
        /\ logPad = 0
        /\ handed = <<>>
        /\ inbound = <<>>
        /\ reqsReturned = <<>>
        /\ scDispatched = FALSE
        /\ lastPoll = "none"
        /\ missLog = {}
        /\ lastMiss = NoMiss
        /\ stalls = 0
        /\ passErrors = {}

\* no value is in the codec
NoCodec == [type |-> "none", x |-> 0, stage |-> "idle", bytes |-> <<>>, back |-> 0]

Init == InitOf(Sessions) /\ codec = NoCodec

Next ==
    \/ Handshake
    \/ Top
    \/ Scan
    \/ PollTimeout
    \/ PollFail
    \/ ReadData
    \/ ReadClosed
    \/ Dispatch
    \/ Prefetch
    \/ BreakConn
    \/ DiskFault

Spec == Init /\ [][Next]_vars

\* A step of the Serve thread (Handshake, Top, Scan, Dispatch, Prefetch) or the
\* return of adb_poll / adb_read (PollTimeout, PollFail, ReadData, ReadClosed):
\* each of them moves pc, one of them is possible whenever Serve has not
\* returned, and nothing else moves pc.
Advance ==
    /\ pc \in {"start", "top", "scan", "poll", "dispatch", "prefetch"}
    /\ pc' \in {"top", "scan", "poll", "dispatch", "prefetch", "done", "fault"}

\* the sessions in which progress is checked
SessionsLive == {SessionBig, SessionMiss, SessionPrefetch}

InitLive == InitOf(SessionsLive) /\ codec = NoCodec

\* The server with a disk whose reads do not fail.
NextLive ==
    \/ Handshake
    \/ Top
    \/ Scan
    \/ PollTimeout
    \/ PollFail
    \/ ReadData
    \/ ReadClosed
    \/ Dispatch
    \/ Prefetch
    \/ BreakConn

SpecLive ==
    /\ InitLive
    /\ [][NextLive]_vars
    \* the thread runs, and adb_poll returns after kPollTimeoutMillis at the latest
    /\ WF_pc(Advance)

(***************************************************************************)
(* The codec on its own: a value of each type is stored with toBigEndian   *)
(* and read back with readBigEndian                                        *)
(***************************************************************************)
\* values of the 16-bit and of the wider types, signed and unsigned
CodecSamples(T) ==
    IF T = "int16_t"
    THEN {-32768, -32767, -4660, -258, -256, -255, -2, -1, 0, 1, 2, 255, 256,
          258, 4660, 32767}
    ELSE IF T = "uint16_t"
    THEN {0, 1, 2, 255, 256, 258, 4660, 32767, 32768, 65534, 65535}
    ELSE IF T \in SignedTypes
    THEN {-2147483647, -16909060, -65536, -258, -2, -1, 0, 1, 258, 65536,
          16909060, 2147483647}
    ELSE {0, 1, 258, 65535, 65536, 16909060, 2147483647}

serverVars ==
    <<pc, result, files_, sentBlocks, sentBlocksCount, buffer_, prefetches_,
      compressed_, uncompressed_, sentSize_, pendingBlocks_, servingComplete_,
      prefetchedFiles, doneSent, missesCount, missesSent, blocking, request,
      inflight, connAlive, badBlocks, lz4Full, faults, breaks, readSizes,
      wire, log, logPad, handed, inbound, reqsReturned, scDispatched,
      lastPoll, missLog, lastMiss, stalls, passErrors>>

\* `field = toBigEndian(x)`: the bytes stored
CodecEncode ==
    /\ codec.stage = "in"
    /\ codec' = [codec EXCEPT !.stage = "stored",
                              !.bytes = toBigEndian(codec.type, codec.x)]
    /\ UNCHANGED serverVars

\* `readBigEndian<T>(&field)`
CodecDecode ==
    /\ codec.stage = "stored"
    /\ codec' = [codec EXCEPT !.stage = "read",
                              !.back = readBigEndian(codec.type, codec.bytes)]
    /\ UNCHANGED serverVars

\* the server is constructed and not started; a value of a type is given
InitCodec ==
    /\ InitOf({SessionEmpty})
    /\ inflight = <<>>
    /\ ~servingComplete_
    /\ \E T \in CodecTypes : \E x \in CodecSamples(T) :
          codec = [type |-> T, x |-> x, stage |-> "in", bytes |-> <<>>, back |-> 0]

NextCodec == CodecEncode \/ CodecDecode

SpecCodec == InitCodec /\ [][NextCodec]_vars

(***************************************************************************)
(* What the device sees: the records and chunks decoded as the wire format *)
(* defines them (big-endian), and the reference parse of the inbound bytes *)
(***************************************************************************)
WireInt16(b) == IF b[1] >= 128 THEN (b[1] * 256 + b[2]) - 65536 ELSE b[1] * 256 + b[2]
WireInt32(b) ==
    IF b[1] >= 128
    THEN -((((255 - b[1]) * 256 + (255 - b[2])) * 256 + (255 - b[3])) * 256 + (255 - b[4])) - 1
    ELSE ((b[1] * 256 + b[2]) * 256 + b[3]) * 256 + b[4]

RecFile(r) == WireInt16(r.file_id)
RecIdx(r) == WireInt32(r.block_idx)
RecBlockSize(r) == WireInt16(r.block_size)
IsSentinel(r) == RecFile(r) = -1

Chunks == SelectSeq(wire, LAMBDA w : w.kind = "chunk")
RECURSIVE RecsOf(_)
RecsOf(chunks) == IF chunks = <<>> THEN <<>> ELSE Head(chunks).recs \o RecsOf(Tail(chunks))
\* the records for which a write has been issued on the connection, in order
Written == RecsOf(Chunks)

CountIn(recs, f, i) ==
    Cardinality({k \in 1 .. Len(recs) : RecFile(recs[k]) = f /\ RecIdx(recs[k]) = i})
SentinelCount(recs) == Cardinality({k \in 1 .. Len(recs) : IsSentinel(recs[k])})

\* the bytes of the records recs[lo .. hi], by the sizes their headers declare
RECURSIVE SumWireRange(_, _, _)
SumWireRange(recs, lo, hi) ==
    IF lo > hi THEN 0
    ELSE IF lo = hi THEN sizeofResponseHeader + RecBlockSize(recs[lo])
    ELSE SumWireRange(recs, lo, (lo + hi) \div 2)
         + SumWireRange(recs, (lo + hi) \div 2 + 1, hi)
SumWire(recs) == SumWireRange(recs, 1, Len(recs))

IsPrefix(s, t) == Len(s) <= Len(t) /\ SubSeq(t, 1, Len(s)) = s

\* position of the first magic in s (0: none)
FirstMagic(s) ==
    LET hits == {i \in 1 .. (Len(s) - 3) : SubSeq(s, i, i + 3) = INCR}
    IN  IF hits = {} THEN 0 ELSE CHOOSE i \in hits : \A j \in hits : i <= j

\* the magic-prefixed 8-byte records of the stream s, in order
RECURSIVE StreamRequests(_)
StreamRequests(s) ==
    LET i == FirstMagic(s) IN
    IF i = 0 \/ i + 11 > Len(s) THEN <<>>
    ELSE <<[has |-> TRUE,
            request_type |-> WireInt16(SubSeq(s, i + 4, i + 5)),
            file_id |-> WireInt16(SubSeq(s, i + 6, i + 7)),
            block_idx |-> WireInt32(SubSeq(s, i + 8, i + 11))]>>
         \o StreamRequests(SubSeqFrom(s, i + 12))

\* the stream s with every magic-prefixed 12-byte request removed
RECURSIVE StreamText(_)
StreamText(s) ==
    LET i == FirstMagic(s) IN
    IF i = 0 \/ i + 11 > Len(s) THEN s
    ELSE SubSeq(s, 1, i - 1) \o StreamText(SubSeqFrom(s, i + 12))

\* SkipToRequest has not returned false: the connection is still served
ReaderOpen == lastPoll \notin {"timeout_terminal", "pollfail", "eof", "readerror"}

PopCount(bits) == Cardinality({b \in DOMAIN bits : bits[b]})

(***************************************************************************)
(* Claims                                                                  *)
(***************************************************************************)

\* C1: for every file, sentBlocksCount equals the number of true bits of
\* sentBlocks, and so never exceeds the file's block count, in every state.
C1_CountIsPopcount ==
    \A f \in FileIds :
        /\ sentBlocksCount[f] = PopCount(sentBlocks[f])
        /\ sentBlocksCount[f] <= numBytesToNumBlocks(files_[f].size)

\* C1 witness: a miss was skipped on a file that is partly sent while a pread
\* of that file fails.
C1_Witness ==
    /\ lastMiss.valid /\ lastMiss.res = "Skipped"
    /\ \E f \in FileIds :
         /\ sentBlocksCount[f] >= 1
         /\ sentBlocksCount[f] < numBytesToNumBlocks(files_[f].size)
         /\ \E b \in badBlocks : b[1] = f

\* C2: for every file f and block i, the number of records with (f, i) handed
\* to the batcher is 1 if sentBlocks[f][i] and 0 otherwise: the block records
\* handed are pairwise different in (file, block), and the blocks they name
\* are exactly the blocks marked sent.
C2_OneRecordPerSentBlock ==
    LET blockRecs == {k \in 1 .. Len(handed) : ~IsSentinel(handed[k])}
        named == {<<RecFile(handed[k]), RecIdx(handed[k])>> : k \in blockRecs}
        marked == UNION {{<<f, i>> : i \in {b \in DOMAIN sentBlocks[f] : sentBlocks[f][b]}}
                         : f \in FileIds}
    IN  /\ Cardinality(named) = Cardinality(blockRecs)
        /\ named = marked

\* C2 witness: a full-file prefetch was accepted, then a miss for one of its
\* blocks was skipped, and the block has one record.
C2_Witness ==
    /\ lastMiss.valid /\ lastMiss.res = "Skipped"
    /\ lastMiss.file \in prefetchedFiles
    /\ CountIn(handed, lastMiss.file, lastMiss.idx) = 1

\* C3: the sentinel is handed to the batcher at most once, and exactly when
\* doneSent is set; it is emitted only by the completion check at the head of
\* the loop, when it finds doneSent false, the prefetch queue empty and every
\* file fully sent; it is never present while a block is unsent; and once the
\* head of the loop has found the queue empty and every file sent, the sentinel
\* is in a chunk written before the next request is read.
C3_SentinelEmittedOnce ==
    /\ [](/\ SentinelCount(handed) <= 1
          /\ doneSent <=> (SentinelCount(handed) = 1)
          /\ doneSent => AllFilesSent(Mem)
          /\ (pc \in {"scan", "poll"} /\ prefetches_ = <<>> /\ AllFilesSent(Mem))
                => (doneSent /\ SentinelCount(Written) = 1))
    /\ [][SentinelCount(handed') > SentinelCount(handed)
            => /\ pc = "top"
               /\ ~doneSent
               /\ prefetches_ = <<>>
               /\ AllFilesSent(Mem)
               /\ IsSentinel(handed'[Len(handed')])]_vars

\* C3 witness: the sentinel is on the wire after at least two blocks of a file
\* were sent.
C3_Witness ==
    /\ doneSent
    /\ SentinelCount(Written) = 1
    /\ \E f \in FileIds : sentBlocksCount[f] >= 2

\* C4 (as claimed): whenever the server is about to read the next inbound
\* request, every valid BLOCK_MISSING dispatched so far whose SendBlock
\* returned Sent or Skipped has the record of its block in a chunk written to
\* the connection.
C4_MissRecordWrittenBeforeNextRead ==
    pc \in {"scan", "poll"} =>
        \A e \in missLog :
            e[3] \in {"Sent", "Skipped"} => CountIn(Written, e[1], e[2]) >= 1

\* C5: the dispatch of a valid BLOCK_MISSING whose block is not marked sent and
\* whose pread succeeds issues, in the dispatch itself (before RunPrefetching),
\* the write of one chunk that holds what was pending followed by the record of
\* the block as its last record, and leaves the batcher empty.
C5_MissFlushedInDispatch ==
    [][(/\ pc = "dispatch"
        /\ request.has
        /\ request.request_type = BLOCK_MISSING
        /\ ValidMiss(Mem, request.file_id, request.block_idx)
        /\ ~sentBlocks[request.file_id][request.block_idx]
        /\ ReadBlock(request.file_id, request.block_idx) >= 0)
       => (/\ pc' = "prefetch"
           /\ Len(wire') = Len(wire) + 1
           /\ SubSeq(wire', 1, Len(wire)) = wire
           /\ LET c == wire'[Len(wire')]
                  last == c.recs[Len(c.recs)]
              IN  /\ c.kind = "chunk"
                  /\ Len(c.recs) = Len(pendingBlocks_.recs) + 1
                  /\ SubSeq(c.recs, 1, Len(pendingBlocks_.recs)) = pendingBlocks_.recs
                  /\ RecFile(last) = request.file_id
                  /\ RecIdx(last) = request.block_idx
           /\ pendingBlocks_' = EmptyPending)]_vars

\* C5 witness: a miss was just sent and its chunk also carries records that a
\* prefetch pass had left pending.
C5_Witness ==
    /\ pc = "prefetch"
    /\ lastMiss.valid /\ lastMiss.res = "Sent"
    /\ wire # <<>>
    /\ Len(wire[Len(wire)].recs) >= 2
    /\ RecIdx(wire[Len(wire)].recs[Len(wire[Len(wire)].recs)]) = lastMiss.idx

\* C6 (as claimed): while SkipToRequest has not returned false, the bytes
\* written to the log sink are the inbound stream without its magic-prefixed
\* 12-byte requests, each byte once and in order: the log is a prefix of that
\* text, whatever the reads and the poll timeouts were.
C6_LogIsStreamWithoutRequests ==
    ReaderOpen => IsPrefix(log, StreamText(inbound))

\* C7: the requests ReadRequest has decoded from the buffer are, in order,
\* the magic-prefixed 8-byte records of the bytes read so far, and when the
\* server polls for more bytes every complete record has been returned,
\* whatever the split into reads and the timeouts in between.  (The DESTROY
\* that SkipToRequest's failure stands for is not a record of the stream.)
C7_RequestsAreStreamRecords ==
    /\ IsPrefix(reqsReturned, StreamRequests(inbound))
    /\ pc = "poll" => reqsReturned = StreamRequests(inbound)

\* C7 witness: one request was returned whose 12 bytes came in several reads,
\* with a poll timeout while only a part of its magic was in the buffer.
C7_Witness ==
    /\ Len(inbound) = sizeofINCR + sizeofRequestCommand
    /\ Len(reqsReturned) = 1
    /\ stalls = 1
    /\ Len(log) \in 1 .. 3

\* C8 (as claimed): the records written in chunks followed by the records
\* still in the batcher are the records handed to Send, in the order of the
\* calls, so each is in one chunk and none is split or repeated; each chunk's
\* declared length is the sum of 10 + block_size over its records; and when
\* Serve has returned every record handed to Send has been written.
C8_RecordsChunkedInOrder ==
    /\ Written \o pendingBlocks_.recs = handed
    /\ \A k \in 1 .. Len(Chunks) :
          /\ Chunks[k].recs # <<>>
          /\ WireInt32(Chunks[k].header) = SumWire(Chunks[k].recs)
          /\ Chunks[k].bytes = sizeofChunkHeader + SumWire(Chunks[k].recs)
    /\ pc = "done" => Written = handed

\* C9 (as claimed): a poll timeout makes SkipToRequest fail (ReadRequest then
\* returns DESTROY) only in a session in which SERVING_COMPLETE was dispatched.
C9_TimeoutTerminalOnlyAfterComplete ==
    lastPoll = "timeout_terminal" => scDispatched

\* C10: a poll timeout in a blocking wait after SERVING_COMPLETE was dispatched
\* makes ReadRequest return DESTROY, and Serve then returns true; a poll
\* timeout in a zero-wait poll makes ReadRequest return no request, and the
\* loop goes on to RunPrefetching, also after SERVING_COMPLETE.
C10_TimeoutAfterComplete ==
    [][LET timedOut == /\ pc = "poll" /\ pc' = "dispatch"
                       /\ lastPoll' \in {"timeout_terminal", "timeout_blocking",
                                         "timeout_nonblocking"}
       IN  /\ (timedOut /\ blocking /\ scDispatched)
                 => (request' = DestroyRequest /\ lastPoll' = "timeout_terminal")
           /\ (timedOut /\ ~blocking)
                 => (request' = NoRequest /\ lastPoll' = "timeout_nonblocking")
           /\ (pc = "dispatch" /\ lastPoll = "timeout_terminal")
                 => (pc' = "done" /\ result' = TRUE)
           /\ (pc = "dispatch" /\ lastPoll = "timeout_nonblocking")
                 => pc' = "prefetch"]_vars

\* C10 witness: Serve has returned true on a blocking timeout after a
\* SERVING_COMPLETE was dispatched.
C10_Witness ==
    /\ pc = "done" /\ result
    /\ lastPoll = "timeout_terminal"
    /\ scDispatched

\* C11: the dispatch of SERVING_COMPLETE sets servingComplete_, goes on to
\* RunPrefetching without returning, and leaves the sent bitmaps and counts,
\* the prefetch queue, doneSent, the set of prefetched files, the batcher and
\* the connection as they were; and after it a valid BLOCK_MISSING for an
\* unsent, readable block is still sent, flushed and followed by its
\* read-ahead, and a first PREFETCH of a file is still enqueued.
C11_ServingCompleteKeepsServing ==
    [][/\ (pc = "dispatch" /\ request.has /\ request.request_type = SERVING_COMPLETE)
            => /\ pc' = "prefetch"
               /\ result' = result
               /\ servingComplete_'
               /\ UNCHANGED <<sentBlocks, sentBlocksCount, prefetches_, doneSent,
                              prefetchedFiles, pendingBlocks_, wire, handed,
                              missesCount, missesSent>>
       /\ (/\ scDispatched /\ pc = "dispatch"
           /\ request.has /\ request.request_type = BLOCK_MISSING
           /\ ValidMiss(Mem, request.file_id, request.block_idx)
           /\ ~sentBlocks[request.file_id][request.block_idx]
           /\ ReadBlock(request.file_id, request.block_idx) >= 0)
            => /\ pc' = "prefetch"
               /\ sentBlocks'[request.file_id][request.block_idx]
               /\ Len(wire') = Len(wire) + 1
               /\ RecFile(handed'[Len(handed')]) = request.file_id
               /\ RecIdx(handed'[Len(handed')]) = request.block_idx
               /\ wire'[Len(wire')].recs = Append(pendingBlocks_.recs, handed'[Len(handed')])
               /\ Len(prefetches_') = Len(prefetches_) + 1
               /\ prefetches_'[1].file = request.file_id
               /\ prefetches_'[1].overallIndex = request.block_idx + 1
       /\ (/\ scDispatched /\ pc = "dispatch"
           /\ request.has /\ request.request_type = PREFETCH
           /\ request.file_id \in FileIds
           /\ request.file_id \notin prefetchedFiles)
            => /\ pc' = "prefetch"
               /\ Len(prefetches_') = Len(prefetches_) + 1
               /\ prefetches_'[Len(prefetches_')].file = request.file_id
               /\ prefetches_'[Len(prefetches_')].overallIndex = 0]_vars

\* C11 witness: a miss was sent after a SERVING_COMPLETE had been dispatched
\* while blocks were still unsent.
C11_Witness ==
    /\ scDispatched
    /\ Len(reqsReturned) = 2
    /\ reqsReturned[1].request_type = SERVING_COMPLETE
    /\ lastMiss.valid /\ lastMiss.res = "Sent"
    /\ pc = "prefetch"
    /\ \E f \in FileIds : sentBlocksCount[f] < NumBlocksOf(Mem, f)

\* the number of bytes a successful pread of block blockIdx of file fileId
\* returns
RawLen(fileId, blockIdx) ==
    Min(kBlockSize, files_[fileId].size - blockIndexToOffset(blockIdx))

\* the block records handed to Send so far (positions in handed)
BlockRecords == {k \in 1 .. Len(handed) : ~IsSentinel(handed[k])}

\* C12 (as claimed): every block record handed to Send declares a block_size
\* no larger than the number of raw bytes read for its block.
C12_NeverInflates ==
    \A k \in BlockRecords :
        RecBlockSize(handed[k]) <= RawLen(RecFile(handed[k]), RecIdx(handed[k]))

\* C13: every block record handed to Send has compression_type 1 with
\* 0 < block_size < 3891 and block_size the length LZ4 returned, or
\* compression_type 0 with block_size <= 4096 and block_size the raw read
\* length; it has compression_type 1 exactly when LZ4 returned a positive
\* length below 3891; and with the already-compressed flag set the compressed
\* form is not used, whatever LZ4 would return.
C13_CompressionChoice ==
    /\ \A k \in BlockRecords :
         LET r == handed[k]
             raw == RawLen(RecFile(r), RecIdx(r))
             out == LZ4_compress_default(RecFile(r), raw)
             comp == WireInt16(r.compression_type)
             bs == RecBlockSize(r)
         IN  /\ \/ (comp = 1 /\ 0 < bs /\ bs < 3891 /\ bs = out)
                \/ (comp = 0 /\ bs <= 4096 /\ bs = raw)
             /\ (comp = 1) <=> (out > 0 /\ out < 3891)
    /\ \A out \in {1, 20, 3890, 3891, 4114} : ~UseCompressed(CompressedSizeOf(TRUE, out))

\* C13 witness: a block that LZ4 brought to 3890 bytes was sent compressed and
\* a block that LZ4 brought to 3891 bytes was sent raw.
C13_Witness ==
    /\ \E k \in BlockRecords :
         /\ WireInt16(handed[k].compression_type) = 1
         /\ RecBlockSize(handed[k]) = 3890
    /\ \E k \in BlockRecords :
         /\ WireInt16(handed[k].compression_type) = 0
         /\ LZ4_compress_default(RecFile(handed[k]),
                                 RawLen(RecFile(handed[k]), RecIdx(handed[k]))) = 3891

\* C14 (as claimed): a Send with flush = false (the sends of a prefetch pass)
\* writes the pending chunk only when the bytes accumulated after the 4-byte
\* chunk header exceed 126976, and leaves them pending otherwise: every chunk
\* written in a pass carries more than 126976 bytes of records, and the
\* records left pending by it carry at most 126976; a Send with flush = true
\* (a miss that is sent) writes the chunk and leaves nothing pending.
C14_SendWritesIffFlushOrOverLimit ==
    [][/\ pc = "prefetch"
            => /\ \A k \in (Len(wire) + 1) .. Len(wire') :
                     SumWire(wire'[k].recs) > 126976
               /\ SumWire(pendingBlocks_'.recs) <= 126976
       /\ (pc = "dispatch" /\ handed' # handed)
            => /\ Len(wire') = Len(wire) + 1
               /\ pendingBlocks_' = EmptyPending]_vars

\* C15: while the server is in a blocking ReadRequest (entered with the
\* prefetch queue empty) the batcher holds no bytes, and every record handed
\* to Send so far is in a chunk written to the connection.
C15_NothingPendingWhileBlocking ==
    (pc \in {"scan", "poll"} /\ blocking)
        => /\ prefetches_ = <<>>
           /\ pendingBlocks_ = EmptyPending
           /\ Written = handed

\* C15 witness: the server waits in a blocking read after a prefetch pass of
\* fewer blocks than fill a chunk, which are on the wire.
C15_Witness ==
    /\ pc = "poll" /\ blocking
    /\ prefetchedFiles # {}
    /\ handed # <<>>
    /\ ~doneSent
    /\ SumWire(handed) < kChunkFlushSize

\* C16: one RunPrefetching hands at most 128 block records to Send; it ends
\* with 128 handed or with the queue empty, so blocks that were skipped or
\* whose read failed did not use up the budget; every block the cursor of the
\* state at the head of the queue went past is marked sent or unreadable; and
\* when the pass ends with that state still unfinished, the block just before
\* its cursor is the last one the pass sent.
C16_PassBudget ==
    [][pc = "prefetch"
        => LET sent == Len(handed') - Len(handed) IN
           /\ sent <= 128
           /\ sent = 128 \/ prefetches_' = <<>>
           /\ \A k \in (Len(handed) + 1) .. Len(handed') : ~IsSentinel(handed'[k])
           /\ prefetches_ # <<>> /\ prefetches_[1].file \in FileIds
                => LET h == prefetches_[1]
                       stays == /\ prefetches_' # <<>>
                                /\ prefetches_'[1].file = h.file
                                /\ prefetches_'[1].overallEnd = h.overallEnd
                       cursor == IF stays THEN prefetches_'[1].overallIndex
                                 ELSE h.overallEnd
                   IN  /\ \A i \in h.overallIndex .. (cursor - 1) :
                             sentBlocks'[h.file][i] \/ <<h.file, i>> \in badBlocks
                       /\ (stays /\ cursor > h.overallIndex)
                             => /\ ~sentBlocks[h.file][cursor - 1]
                                /\ sentBlocks'[h.file][cursor - 1]
                                /\ sent = 128]_vars

\* C16 witness: a pass over a file has sent 128 blocks while going past the 8
\* blocks that a miss and its read-ahead had sent before.
C16_Witness ==
    /\ pc = "top"
    /\ missesSent = 1
    /\ Len(handed) = 128 + kReadAhead + 1
    /\ prefetches_ # <<>>
    /\ prefetches_[1].overallIndex = 128 + kReadAhead + 1
    /\ sentBlocksCount[prefetches_[1].file] = 128 + kReadAhead + 1

\* C17: a PREFETCH for a file_id that was accepted before is dropped: the
\* queue, the set of prefetched files, the sent bitmaps and counts, the batcher
\* and the connection stay as they were; a first PREFETCH for a file of the
\* table appends the state of the whole file; a file_id never leaves the set
\* of prefetched files; and a state that starts at block 0 is appended only
\* for a file_id that was not in the set and now is.  So at most one
\* full-file state per file_id is ever enqueued.
C17_OnePrefetchPerFile ==
    [][/\ (/\ pc = "dispatch" /\ request.has /\ request.request_type = PREFETCH
           /\ request.file_id \in prefetchedFiles)
            => /\ pc' = "prefetch"
               /\ UNCHANGED <<prefetches_, prefetchedFiles, sentBlocks,
                              sentBlocksCount, pendingBlocks_, wire, handed>>
       /\ (/\ pc = "dispatch" /\ request.has /\ request.request_type = PREFETCH
           /\ request.file_id \in FileIds
           /\ request.file_id \notin prefetchedFiles)
            => prefetches_' =
                   Append(prefetches_,
                          [file |-> request.file_id, overallIndex |-> 0,
                           overallEnd |-> numBytesToNumBlocks(files_[request.file_id].size)])
       /\ prefetchedFiles \subseteq prefetchedFiles'
       /\ (/\ Len(prefetches_') = Len(prefetches_) + 1
           /\ prefetches_' = Append(prefetches_, prefetches_'[Len(prefetches_')])
           /\ prefetches_'[Len(prefetches_')].overallIndex = 0)
            => /\ prefetches_'[Len(prefetches_')].file \notin prefetchedFiles
               /\ prefetches_'[Len(prefetches_')].file \in prefetchedFiles']_vars

\* C17 witness: a second PREFETCH of a file was dispatched after the first had
\* drained, and the queue is empty.
C17_Witness ==
    /\ pc = "prefetch"
    /\ Len(reqsReturned) = 2
    /\ reqsReturned[1] = reqsReturned[2]
    /\ reqsReturned[1].request_type = PREFETCH
    /\ reqsReturned[1].file_id \in FileIds
    /\ sentBlocksCount[reqsReturned[1].file_id] >= 2
    /\ sentBlocksCount[reqsReturned[1].file_id] = NumBlocksOf(Mem, reqsReturned[1].file_id)
    /\ prefetches_ = <<>>

\* C18: dispatching a BLOCK_MISSING for a block that is marked sent hands
\* nothing to the batcher, leaves the sent bitmaps, the sent counts and the
\* prefetch queue as they were (no read-ahead state is pushed), leaves the
\* count of misses answered as it was, and adds one to the count of misses
\* received.
C18_MissOfSentBlock ==
    [][(/\ pc = "dispatch" /\ request.has /\ request.request_type = BLOCK_MISSING
        /\ ValidMiss(Mem, request.file_id, request.block_idx)
        /\ sentBlocks[request.file_id][request.block_idx])
         => /\ handed' = handed
            /\ pendingBlocks_' = pendingBlocks_
            /\ sentBlocks' = sentBlocks
            /\ sentBlocksCount' = sentBlocksCount
            /\ prefetches_' = prefetches_
            /\ missesSent' = missesSent
            /\ missesCount' = missesCount + 1
            /\ lastMiss'.res = "Skipped"]_vars

\* C18 witness: a block was sent in answer to a miss, the read-ahead behind
\* it has drained, and a second miss for the same block was skipped: two misses
\* received, one answered, one record for the block.
C18_Witness ==
    /\ pc = "prefetch"
    /\ lastMiss.valid /\ lastMiss.res = "Skipped"
    /\ <<lastMiss.file, lastMiss.idx, "Sent">> \in missLog
    /\ missesCount = 2 /\ missesSent = 1
    /\ prefetches_ = <<>>
    /\ CountIn(handed, lastMiss.file, lastMiss.idx) = 1

\* C19: a BLOCK_MISSING whose file_id is negative or not below the number of
\* files, or whose block_idx is negative or not below the block count of its
\* file, is dropped: SendBlock is not entered, nothing is handed to the batcher
\* or written, no sent bitmap or sent count changes, no prefetch state is
\* pushed, and the loop goes on to its prefetching pass.
C19_InvalidMissDropped ==
    [][(/\ pc = "dispatch" /\ request.has /\ request.request_type = BLOCK_MISSING
        /\ \/ request.file_id < 0
           \/ request.file_id >= Cardinality(FileIds)
           \/ request.block_idx < 0
           \/ request.block_idx >= numBytesToNumBlocks(files_[request.file_id].size))
         => /\ lastMiss' = NoMiss
            /\ handed' = handed
            /\ pendingBlocks_' = pendingBlocks_
            /\ wire' = wire
            /\ sentBlocks' = sentBlocks
            /\ sentBlocksCount' = sentBlocksCount
            /\ prefetches_' = prefetches_
            /\ missesSent' = missesSent
            /\ result' = result
            /\ pc' = "prefetch"]_vars

\* C19 witness: two requests were dispatched, one with a negative file_id and
\* one with a block_idx past the end of its file; both were counted, neither was
\* answered, and the server is at its prefetching pass.
C19_Witness ==
    /\ pc = "prefetch"
    /\ Len(reqsReturned) = 2
    /\ \A k \in 1 .. 2 : reqsReturned[k].request_type = BLOCK_MISSING
    /\ \E k \in 1 .. 2 : reqsReturned[k].file_id < 0
    /\ \E k \in 1 .. 2 :
         /\ reqsReturned[k].file_id \in FileIds
         /\ reqsReturned[k].block_idx >= numBytesToNumBlocks(files_[reqsReturned[k].file_id].size)
    /\ missesCount = 2 /\ missesSent = 0
    /\ missLog = {}
    /\ handed = <<>>

\* C20: a PREFETCH whose file_id is negative or not below the number of files
\* is dropped: nothing is enqueued, the set of prefetched files, the sent
\* bitmaps and counts, the batcher and the connection stay as they were, and
\* the loop goes on to its prefetching pass.  The code rejects only a negative
\* file_id: one past the end of the table is inserted into the set of
\* prefetched files and used to index the table.
C20_OutOfRangePrefetchDropped ==
    [][(/\ pc = "dispatch" /\ request.has /\ request.request_type = PREFETCH
        /\ \/ request.file_id < 0
           \/ request.file_id >= Cardinality(FileIds))
         => /\ prefetches_' = prefetches_
            /\ prefetchedFiles' = prefetchedFiles
            /\ sentBlocks' = sentBlocks
            /\ sentBlocksCount' = sentBlocksCount
            /\ handed' = handed
            /\ pendingBlocks_' = pendingBlocks_
            /\ wire' = wire
            /\ result' = result
            /\ pc' = "prefetch"]_vars

\* C21: a block whose read fails is not sent.  The dispatch of a valid
\* BLOCK_MISSING for an unsent block whose pread fails gets Error from
\* SendBlock and leaves the sent bitmaps, the sent counts, the compressed and
\* uncompressed counters, the batcher, the connection, the prefetch queue and
\* the count of misses answered as they were, and the loop goes on to its
\* prefetching pass.  In every step, prefetching passes included, a block that
\* is unsent and unreadable stays unsent and gets no record, and the loop goes
\* on; and the two counters together always count the block records handed to
\* the batcher.
C21_ReadFailureChangesNothing ==
    /\ [](compressed_ + uncompressed_ = Len(handed) - SentinelCount(handed))
    /\ [][/\ (/\ pc = "dispatch" /\ request.has
              /\ request.request_type = BLOCK_MISSING
              /\ ValidMiss(Mem, request.file_id, request.block_idx)
              /\ ~sentBlocks[request.file_id][request.block_idx]
              /\ <<request.file_id, request.block_idx>> \in badBlocks)
               => /\ lastMiss'.valid /\ lastMiss'.res = "Error"
                  /\ UNCHANGED <<sentBlocks, sentBlocksCount, compressed_,
                                 uncompressed_, handed, pendingBlocks_, wire,
                                 prefetches_, missesSent, result>>
                  /\ pc' = "prefetch"
          /\ \A b \in badBlocks :
                ~sentBlocks[b[1]][b[2]]
                  => /\ ~sentBlocks'[b[1]][b[2]]
                     /\ CountIn(handed', b[1], b[2]) = 0
          /\ (pc = "prefetch" /\ \E b \in badBlocks : ~sentBlocks[b[1]][b[2]])
               => pc' = "top" /\ result' = result]_vars

\* C21 witness: a prefetching pass has gone over a file of which one block is
\* unreadable: every other block is sent, that one is not, and the queue is
\* empty; the server is back at the head of its loop.
C21_Witness ==
    /\ pc = "top"
    /\ prefetches_ = <<>>
    /\ \E b \in badBlocks :
         /\ b[1] \in prefetchedFiles
         /\ ~sentBlocks[b[1]][b[2]]
         /\ sentBlocksCount[b[1]] = NumBlocksOf(Mem, b[1]) - 1
         /\ sentBlocksCount[b[1]] >= 2

\* C22: a chunk whose write fails does not end the server.  The step that
\* issues the failed write leaves the batcher empty and does not return from
\* Serve, and every block with a record in the failed chunk is marked sent
\* and has that one record; a sent bit is never reset and a record is handed
\* to the batcher only for a block that was not marked sent, so the blocks of
\* a failed chunk are not sent again; and once the handshake is done Serve
\* returns only from the dispatch of a DESTROY, which the reader decoded or put
\* in the place of a terminal read, and returns true.
C22_WriteFailureDoesNotStop ==
    [][/\ (/\ Len(wire') > Len(wire)
           /\ wire'[Len(wire')].kind = "chunk"
           /\ ~wire'[Len(wire')].ok)
            => /\ pendingBlocks_' = EmptyPending
               /\ pc' \in {"scan", "prefetch", "top"}
               /\ result' = result
               /\ \A j \in 1 .. Len(wire'[Len(wire')].recs) :
                     LET rec == wire'[Len(wire')].recs[j] IN
                     ~IsSentinel(rec)
                       => /\ sentBlocks'[RecFile(rec)][RecIdx(rec)]
                          /\ CountIn(handed', RecFile(rec), RecIdx(rec)) = 1
       /\ \A f \in FileIds : \A i \in DOMAIN sentBlocks[f] :
             sentBlocks[f][i] => sentBlocks'[f][i]
       /\ Len(handed') >= Len(handed)
       /\ \A k \in (Len(handed) + 1) .. Len(handed') :
             ~IsSentinel(handed'[k])
               => ~sentBlocks[RecFile(handed'[k])][RecIdx(handed'[k])]
       /\ (pc # "start" /\ pc' = "done")
            => /\ pc = "dispatch"
               /\ request.has /\ request.request_type = DESTROY
               /\ result' = TRUE]_vars

\* C22 witness: the write of a chunk with a block record failed, the server
\* went on and issued a later write, and it is waiting for the next request.
C22_Witness ==
    /\ pc = "poll"
    /\ \E k \in 1 .. (Len(wire) - 1) :
         /\ wire[k].kind = "chunk"
         /\ ~wire[k].ok
         /\ \E j \in 1 .. Len(wire[k].recs) : ~IsSentinel(wire[k].recs[j])

\* C23: when the write of the readiness token fails, Serve returns false in
\* that step and nothing else changes: no byte is read from the connection, no
\* request is decoded, nothing is handed to the batcher or written, no block
\* is marked sent.  Otherwise the token is the first write on the connection
\* and the only write that is not a chunk, and it is there whenever Serve is
\* past its handshake.
C23_HandshakeFailureIsFatal ==
    /\ []((pc = "done" /\ result = FALSE)
             => /\ wire = <<>> /\ handed = <<>> /\ pendingBlocks_ = EmptyPending
                /\ inbound = <<>> /\ reqsReturned = <<>> /\ log = <<>>
                /\ prefetches_ = <<>> /\ prefetchedFiles = {}
                /\ \A f \in FileIds : sentBlocksCount[f] = 0)
    /\ []((pc \in {"top", "scan", "poll", "dispatch", "prefetch"}
           \/ (pc = "done" /\ result = TRUE))
             => /\ wire # <<>>
                /\ wire[1] = OkayWrite
                /\ \A k \in 2 .. Len(wire) : wire[k].kind = "chunk")
    /\ [][(pc = "start" /\ ~connAlive)
            => /\ pc' = "done"
               /\ result' = FALSE
               /\ UNCHANGED <<files_, sentBlocks, sentBlocksCount, buffer_,
                              prefetches_, compressed_, uncompressed_, sentSize_,
                              pendingBlocks_, servingComplete_, prefetchedFiles,
                              doneSent, missesCount, missesSent, request,
                              inflight, wire, log, handed, inbound,
                              reqsReturned>>]_vars

\* C23 witness: Serve has returned false while two requests of the device were
\* waiting on the connection.
C23_Witness ==
    /\ pc = "done"
    /\ result = FALSE
    /\ Len(inflight) = 2 * (sizeofINCR + sizeofRequestCommand)
    /\ ~connAlive

\* the number of bytes output_fd_ has received
LogSinkSize == Len(log) + logPad

\* C24 (as claimed): once the handshake is done every return of Serve is a
\* return of true; a DESTROY request, a failed or closed read, a failed poll
\* and a blocking timeout with servingComplete_ set each end the loop; and at
\* a failed or closed read the log sink receives the bytes held in buffer_,
\* those and no more, before Serve returns.  The code writes buffer_ after
\* resize(kReadBufferSize) has grown it, so the held bytes are followed by
\* zero bytes up to kReadBufferSize.
C24_TerminationReturnsTrue ==
    [][/\ (pc # "start" /\ pc' = "done") => result' = TRUE
       /\ (pc = "dispatch" /\ request.has /\ request.request_type = DESTROY)
            => pc' = "done"
       /\ (pc = "poll" /\ pc' = "dispatch"
           /\ lastPoll' \in {"eof", "readerror", "pollfail", "timeout_terminal"})
            => request' = DestroyRequest
       /\ (pc = "poll" /\ pc' = "dispatch" /\ lastPoll' \in {"eof", "readerror"})
            => /\ log' = log \o buffer_
               /\ LogSinkSize' = LogSinkSize + Len(buffer_)]_vars

\* every file of the table has no block
AllFilesEmpty == \A f \in FileIds : files_[f].size = 0

\* C25: with a table of empty files the sentinel is handed and written, alone
\* in the first chunk, by the first pass through the head of the loop, when no
\* byte has been read from the connection; so it is written in every state
\* from the first call of ReadRequest on, the states in which Serve has
\* returned true included.  With any table, when ReadRequest is entered with
\* the queue empty and every file that has blocks fully sent, the sentinel is
\* written: a file without blocks does not hold it back.
C25_EmptyFilesDoNotDelaySentinel ==
    /\ []((AllFilesEmpty /\ pc \in {"scan", "poll", "dispatch", "prefetch", "top", "done"})
            => \/ pc = "top" /\ wire = <<OkayWrite>> /\ inbound = <<>>
               \/ pc = "done" /\ result = FALSE
               \/ /\ Len(wire) >= 2
                  /\ wire[2].kind = "chunk"
                  /\ wire[2].recs = <<DoneHeader>>
                  /\ SentinelCount(Written) = 1)
    /\ []((/\ pc \in {"scan", "poll"}
           /\ prefetches_ = <<>>
           /\ \A f \in FileIds :
                 files_[f].size > 0
                   => sentBlocksCount[f] = numBytesToNumBlocks(files_[f].size))
            => SentinelCount(Written) = 1)
    /\ [][(AllFilesEmpty /\ pc = "top" /\ wire = <<OkayWrite>>)
            => /\ inbound = <<>> /\ reqsReturned = <<>>
               /\ wire' = <<OkayWrite,
                            [kind |-> "chunk",
                             header |-> toBigEndian32(sizeofResponseHeader),
                             recs |-> <<DoneHeader>>,
                             bytes |-> sizeofChunkHeader + sizeofResponseHeader,
                             ok |-> connAlive]>>
               /\ doneSent']_vars

\* C25 witness: with a table of empty files, Serve has returned true on the
\* first request, a DESTROY, and the sentinel is on the wire.
C25_Witness ==
    /\ AllFilesEmpty
    /\ pc = "done" /\ result = TRUE
    /\ Len(reqsReturned) = 1
    /\ reqsReturned[1].request_type = DESTROY
    /\ SentinelCount(Written) = 1

\* C26 (as claimed): the dispatch of a DESTROY, decoded from the stream or
\* standing for a terminal read, hands no record to the batcher, and when
\* Serve has returned the batcher is empty and every block marked sent has
\* its record in a chunk written to the connection.  The DESTROY case returns
\* without calling Flush.
C26_PendingWrittenAtDestroy ==
    [][(pc = "dispatch" /\ request.has /\ request.request_type = DESTROY)
         => /\ pc' = "done"
            /\ handed' = handed
            /\ pendingBlocks_' = EmptyPending
            /\ \A f \in FileIds : \A i \in DOMAIN sentBlocks[f] :
                  sentBlocks'[f][i] => CountIn(RecsOf(SelectSeq(wire', LAMBDA w : w.kind = "chunk")), f, i) >= 1]_vars

\* file f is wholly sent, the queue is empty, and the server has flushed and
\* is in a blocking ReadRequest, with the sentinel written if every file is sent
Settled(f) ==
    /\ sentBlocksCount[f] = numBytesToNumBlocks(files_[f].size)
    /\ prefetches_ = <<>>
    /\ pc \in {"scan", "poll"}
    /\ blocking
    /\ pendingBlocks_ = EmptyPending
    /\ CountIn(Written, f, numBytesToNumBlocks(files_[f].size) - 1) = 1
    /\ (\A g \in FileIds : sentBlocksCount[g] = numBytesToNumBlocks(files_[g].size))
          => SentinelCount(Written) = 1

\* C27: with no failing reads, once a PREFETCH of a file of the table has been
\* accepted, the server reaches, whatever else the device sends or does not
\* send, a state in which every block of the file is sent, the queue is empty,
\* the batcher is flushed, the server waits in a blocking read and, if every
\* file is sent, the sentinel is written -- unless Serve returns or faults
\* first.  And a pass that starts with only the state of a whole file in the
\* queue and at most 128 unsent blocks in that file ends with every block of
\* the file sent and the queue empty.
C27_PrefetchCompletes ==
    /\ \A f \in 0 .. 1 :
          (f \in FileIds /\ f \in prefetchedFiles)
             ~> (pc \in {"done", "fault"} \/ (f \in FileIds /\ Settled(f)))
    /\ [][(/\ pc = "prefetch"
           /\ Len(prefetches_) = 1
           /\ prefetches_[1].file \in FileIds
           /\ prefetches_[1].overallIndex = 0
           /\ prefetches_[1].overallEnd = NumBlocksOf(Mem, prefetches_[1].file)
           /\ NumBlocksOf(Mem, prefetches_[1].file)
                 - sentBlocksCount[prefetches_[1].file] <= kPrefetchBlocksPerIteration)
            => /\ prefetches_' = <<>>
               /\ sentBlocksCount'[prefetches_[1].file]
                     = NumBlocksOf(Mem, prefetches_[1].file)
               /\ pc' = "top"]_vars

\* C27 witness: the one request of the session was a PREFETCH of a file of
\* more than two passes; the file is wholly sent, the sentinel is written, and
\* the server waits in a blocking read.
C27_Witness ==
    /\ Len(reqsReturned) = 1
    /\ reqsReturned[1].request_type = PREFETCH
    /\ inflight = <<>>
    /\ 0 \in prefetchedFiles
    /\ sentBlocksCount[0] > 2 * kPrefetchBlocksPerIteration
    /\ Settled(0)
    /\ pc = "poll"

\* the n bytes of x, most significant first (two's complement)
BigEndianLayout(x, n) == [i \in 1 .. n |-> ShiftRight8(x, n - i) % 256]

\* C28 (as claimed): for each of the signed and unsigned 16-, 32- and 64-bit
\* types and every value x, the bytes toBigEndian stores are the bytes of x
\* most significant first, and readBigEndian of those bytes is x.  The code
\* converts the signed types only: toBigEndian returns an unsigned value as it
\* is, in host byte order, and readBigEndian returns 0 for an unsigned type.
C28_CodecIsBigEndian ==
    /\ codec.stage \in {"stored", "read"}
         => codec.bytes = BigEndianLayout(codec.x, SizeOf(codec.type))
    /\ codec.stage = "read" => codec.back = codec.x

\* C29: the dispatch of a valid BLOCK_MISSING for block b of file f that is
\* answered Sent puts the one state (f, b + 1, min(b + 8, block count)) in
\* front of the queue; one answered Skipped or Error, or an invalid one, leaves
\* the queue as it was; the first PREFETCH of a file of the table appends the
\* one state (f, 0, block count).  In particular a miss sent for block 0 of a
\* file of two blocks leaves (file 0, 1, 2) at the head.
C29_WhatIsEnqueued ==
    [][/\ (pc = "dispatch" /\ request.has /\ request.request_type = BLOCK_MISSING)
            => LET f == request.file_id
                   b == request.block_idx
               IN  IF lastMiss'.valid /\ lastMiss'.res = "Sent"
                   THEN prefetches_' =
                          <<[file |-> f, overallIndex |-> b + 1,
                             overallEnd |->
                               IF b + 8 < numBytesToNumBlocks(files_[f].size)
                               THEN b + 8
                               ELSE numBytesToNumBlocks(files_[f].size)]>>
                          \o prefetches_
                   ELSE prefetches_' = prefetches_
       /\ (/\ pc = "dispatch" /\ request.has /\ request.request_type = BLOCK_MISSING
           /\ request.file_id \in FileIds
           /\ request.block_idx \in DOMAIN sentBlocks[request.file_id]
           /\ ~sentBlocks[request.file_id][request.block_idx]
           /\ <<request.file_id, request.block_idx>> \notin badBlocks)
            => lastMiss'.valid /\ lastMiss'.res = "Sent"
       /\ (/\ pc = "dispatch" /\ request.has /\ request.request_type = PREFETCH
           /\ request.file_id \in FileIds
           /\ request.file_id \notin prefetchedFiles)
            => prefetches_' =
                 prefetches_
                 \o <<[file |-> request.file_id, overallIndex |-> 0,
                       overallEnd |-> numBytesToNumBlocks(files_[request.file_id].size)]>>
       /\ (/\ pc = "dispatch" /\ request.has /\ request.request_type = BLOCK_MISSING
           /\ request.file_id = 0 /\ request.block_idx = 0
           /\ 0 \in FileIds
           /\ numBytesToNumBlocks(files_[0].size) = 2
           /\ ~sentBlocks[0][0]
           /\ <<0, 0>> \notin badBlocks)
            => prefetches_'[1] = [file |-> 0, overallIndex |-> 1, overallEnd |-> 2]]_vars

\* C29 witness: a miss for block 0 of a file of two blocks was just sent, and
\* the queue holds the state (file 0, 1, 2) and nothing else.
C29_Witness ==
    /\ pc = "prefetch"
    /\ lastMiss = [valid |-> TRUE, file |-> 0, idx |-> 0, res |-> "Sent"]
    /\ numBytesToNumBlocks(files_[0].size) = 2
    /\ prefetches_ = <<[file |-> 0, overallIndex |-> 1, overallEnd |-> 2]>>

\* how many blocks the first n ranges of S hold: the iterations the loop
\* spends on them
RECURSIVE BlocksIn(_, _)
BlocksIn(S, n) ==
    IF n <= 0 THEN 0 ELSE (S[n].hi - S[n].lo) + BlocksIn(S, n - 1)

\* C30: a prefetching pass consumes the queue from its head.  It discards
\* some number k of states from the front and leaves the states behind them
\* as they were, except that the new head may have its cursor advanced.  The
\* blocks it sends are the unsent, readable blocks of the k discarded states,
\* from their cursors to their ends, and of the new head from its old cursor
\* to its new one, and no others; and their records are handed to the batcher
\* in the order of that walk through the queue.  So no block of a state is
\* attempted before the states in front of it are done, a discarded state is
\* done, and the cursor of a head that stays is the first block not yet
\* attempted.  A head stays only when it is not done and the pass has sent
\* its 128 blocks.
C30_QueueIsFifo ==
    [][pc = "prefetch" =>
         LET q == prefetches_
             k == Len(q) - Len(prefetches_')
             cur == IF prefetches_' = <<>> THEN 0 ELSE prefetches_'[1].overallIndex
             \* the ranges gone over, in queue order
             S == [j \in 1 .. k |->
                     [file |-> q[j].file, lo |-> q[j].overallIndex,
                      hi |-> q[j].overallEnd]]
                  \o (IF k < Len(q)
                      THEN <<[file |-> q[k + 1].file, lo |-> q[k + 1].overallIndex,
                              hi |-> cur]>>
                      ELSE <<>>)
             Covers(j, w) == S[j].file = w[1] /\ S[j].lo <= w[2] /\ w[2] < S[j].hi
             Covered(w) == \E j \in 1 .. Len(S) : Covers(j, w)
             \* blocks gone over before range j is entered
             Before(j) == BlocksIn(S, j - 1)
             \* when block w is first gone over
             Pos(w) ==
                 LET j == CHOOSE i \in 1 .. Len(S) :
                              Covers(i, w) /\ \A h \in 1 .. (i - 1) : ~Covers(h, w)
                 IN  Before(j) + (w[2] - S[j].lo)
             new == Len(handed') - Len(handed)
             Named(r) == <<RecFile(handed'[Len(handed) + r]),
                           RecIdx(handed'[Len(handed) + r])>>
         IN  /\ k >= 0
             /\ \A j \in 1 .. Len(S) : S[j].hi >= S[j].lo
             /\ prefetches_' # <<>>
                  => /\ prefetches_' =
                          <<[q[k + 1] EXCEPT !.overallIndex = cur]>>
                          \o SubSeq(q, k + 2, Len(q))
                     /\ cur < q[k + 1].overallEnd
                     /\ new = kPrefetchBlocksPerIteration
             /\ \A f \in FileIds : \A i \in DOMAIN sentBlocks[f] :
                   (sentBlocks'[f][i] /\ ~sentBlocks[f][i])
                      <=> (/\ Covered(<<f, i>>)
                           /\ ~sentBlocks[f][i]
                           /\ <<f, i>> \notin badBlocks)
             /\ \A r \in 1 .. new :
                   /\ Covered(Named(r))
                   /\ ~sentBlocks[Named(r)[1]][Named(r)[2]]
             /\ \A r \in 1 .. (new - 1) : Pos(Named(r)) < Pos(Named(r + 1))]_vars

\* C30 witness: a pass found an empty read-ahead state in front of the state
\* of a large file, discarded it, went on in the large file where the pass
\* before had stopped and stopped again when its 128 blocks were sent.
C30_Witness ==
    /\ pc = "top"
    /\ lastMiss.valid /\ lastMiss.res = "Sent"
    /\ lastMiss.idx = NumBlocksOf(Mem, lastMiss.file) - 1
    /\ Len(prefetches_) = 1
    /\ prefetches_[1].file = lastMiss.file
    /\ prefetches_[1].overallIndex = 2 * kPrefetchBlocksPerIteration
    /\ prefetches_[1].overallEnd = NumBlocksOf(Mem, lastMiss.file)
    /\ sentBlocksCount[lastMiss.file] = 2 * kPrefetchBlocksPerIteration + 1

\* C31: every prefetch state in the queue belongs to a file of the table and
\* has 0 <= cursor <= end <= block count of that file, at all times; and a
\* state's cursor never decreases while the state is in the queue: a step
\* either leaves the states that stay as they are (a dispatch adds one in
\* front or behind) or is a pass, which discards states from the front and
\* moves only the cursor of the new head, forwards.  So a pass goes over
\* block indices of [0, block count) only.
C31_PrefetchStateInRange ==
    /\ [](\A n \in 1 .. Len(prefetches_) :
             /\ prefetches_[n].file \in FileIds
             /\ 0 <= prefetches_[n].overallIndex
             /\ prefetches_[n].overallIndex <= prefetches_[n].overallEnd
             /\ prefetches_[n].overallEnd
                  <= numBytesToNumBlocks(files_[prefetches_[n].file].size))
    /\ [][LET q == prefetches_
              k == Len(q) - Len(prefetches_')
          IN  IF pc = "prefetch"
              THEN /\ k >= 0
                   /\ prefetches_' # <<>>
                        => /\ SubSeq(prefetches_', 2, Len(prefetches_'))
                                = SubSeq(q, k + 2, Len(q))
                           /\ prefetches_'[1].file = q[k + 1].file
                           /\ prefetches_'[1].overallEnd = q[k + 1].overallEnd
                           /\ prefetches_'[1].overallIndex >= q[k + 1].overallIndex
              ELSE \/ prefetches_' = q
                   \/ \E p \in {prefetches_'[n] : n \in 1 .. Len(prefetches_')} :
                         prefetches_' = <<p>> \o q \/ prefetches_' = q \o <<p>>]_vars

\* the request kinds the switch of Serve has a case for
KnownKinds == {SERVING_COMPLETE, BLOCK_MISSING, PREFETCH, DESTROY}

\* C32: the dispatch of a request whose kind is none of SERVING_COMPLETE,
\* BLOCK_MISSING, PREFETCH and DESTROY changes no sent bitmap, no counter,
\* not the prefetch queue, not the set of prefetched files, not
\* servingComplete_ and not the batcher, writes nothing to the connection,
\* and the server does not return: it goes on to its prefetching pass.
C32_UnknownKindDropped ==
    [][(pc = "dispatch" /\ request.has /\ request.request_type \notin KnownKinds)
         => /\ pc' = "prefetch"
            /\ result' = "none"
            /\ UNCHANGED <<sentBlocks, sentBlocksCount, compressed_, uncompressed_,
                           sentSize_, missesCount, missesSent, prefetches_,
                           prefetchedFiles, servingComplete_, doneSent,
                           pendingBlocks_, handed, wire>>]_vars

\* C32 witness: a request of kind 4 was read after blocks had been sent, its
\* dispatch is over and the server goes on.
C32_Witness ==
    /\ pc = "prefetch"
    /\ lastPoll = "data"
    /\ reqsReturned # <<>>
    /\ reqsReturned[Len(reqsReturned)].request_type = 4
    /\ handed # <<>>
    /\ result = "none"

\* the blocks marked sent, over all files
MarkedSent(sb) ==
    UNION {{<<f, b>> : b \in {x \in DOMAIN sb[f] : sb[f][x]}} : f \in DOMAIN sb}

\* C33: a prefetching pass is one uninterrupted step of the server thread:
\* it reads nothing from the connection, takes no request from the buffer
\* and dispatches none.  From one call of ReadRequest to the next the thread
\* goes through the dispatch, one pass and the head of the loop, in that
\* order and once each; the dispatch marks at most one block sent (only a
\* BLOCK_MISSING marks one), the pass at most 128, and the frame reader and
\* the head of the loop none.  So at most 129 blocks are marked sent between
\* two consecutive calls of ReadRequest.
C33_OnePassBetweenReads ==
    [][LET marked == Cardinality(MarkedSent(sentBlocks') \ MarkedSent(sentBlocks))
       IN  /\ pc = "prefetch"
                => /\ pc' = "top"
                   /\ marked <= 128
                   /\ UNCHANGED <<inflight, inbound, buffer_, reqsReturned, request,
                                  log, lastPoll, missesCount, prefetchedFiles,
                                  servingComplete_>>
           /\ pc = "dispatch"
                => /\ pc' \in {"prefetch", "done", "fault"}
                   /\ marked <= 1
                   /\ marked = 1 => request.has /\ request.request_type = BLOCK_MISSING
           /\ pc = "top" => pc' = "scan" /\ marked = 0
           /\ pc \in {"start", "scan", "poll"}
                => /\ marked = 0
                   /\ pc' \notin {"prefetch", "top"} \/ pc = "start"
           /\ MarkedSent(sentBlocks) \subseteq MarkedSent(sentBlocks')]_vars

\* C33 witness: between two calls of ReadRequest 129 blocks were marked sent.
\* The first request, a PREFETCH, had 128 blocks sent in its pass; the second,
\* a BLOCK_MISSING for a block beyond them, had that block sent in its
\* dispatch and 128 more in its pass.
C33_Witness ==
    /\ pc = "top"
    /\ Len(reqsReturned) = 2
    /\ reqsReturned[1].request_type = PREFETCH
    /\ reqsReturned[2].request_type = BLOCK_MISSING
    /\ lastMiss.valid /\ lastMiss.res = "Sent"
    /\ Cardinality(MarkedSent(sentBlocks)) = 128 + 129

\* C34: when the dispatch of this loop iteration was a BLOCK_MISSING for
\* block b of file f that returned Sent, the pass that follows it sends the
\* blocks b+1 .. min(b+7, block count - 1) of f that are unsent and readable,
\* all of them, in ascending order, and hands their records to the batcher
\* before the record of any other block: the states that were in the queue
\* before, a partly drained state of a whole file among them, come after.
C34_ReadAheadGoesFirst ==
    [][(pc = "prefetch" /\ lastMiss.valid /\ lastMiss.res = "Sent")
         => LET f == lastMiss.file
                b == lastMiss.idx
                last == numBytesToNumBlocks(files_[f].size) - 1
                ahead == {i \in (b + 1) .. (IF b + 7 < last THEN b + 7 ELSE last) :
                            ~sentBlocks[f][i] /\ <<f, i>> \notin badBlocks}
                new == Len(handed') - Len(handed)
                Named(r) == <<RecFile(handed'[Len(handed) + r]),
                              RecIdx(handed'[Len(handed) + r])>>
            IN  /\ new >= Cardinality(ahead)
                /\ \A i \in ahead : sentBlocks'[f][i]
                /\ \A r \in 1 .. Cardinality(ahead) :
                      /\ Named(r)[1] = f
                      /\ Named(r)[2] \in ahead
                      /\ r > 1 => Named(r - 1)[2] < Named(r)[2]]_vars

\* C34 witness: a prefetch of a file of 258 blocks had its first 128 blocks
\* sent; then block 254 was missed and sent, and the pass after it sent the
\* read-ahead 255 .. 257 and only then went on in the whole-file state, from
\* block 128 until its budget ended at block 252.
C34_Witness ==
    /\ pc = "top"
    /\ lastMiss = [valid |-> TRUE, file |-> 0, idx |-> BigBlocks - 4, res |-> "Sent"]
    /\ prefetches_ =
         <<[file |-> 0, overallIndex |-> BigBlocks - 5, overallEnd |-> BigBlocks]>>
    /\ \A i \in (BigBlocks - 3) .. (BigBlocks - 1) : sentBlocks[0][i]
    /\ ~sentBlocks[0][BigBlocks - 5]
    /\ LET n == Len(handed)
       IN  /\ n = 2 * kPrefetchBlocksPerIteration + 1
           /\ RecIdx(handed[n - kPrefetchBlocksPerIteration + 1]) = BigBlocks - 3
           /\ RecIdx(handed[n - kPrefetchBlocksPerIteration + 4]) = kPrefetchBlocksPerIteration

\* the end-of-stream record has been handed to the batcher
SentinelEmitted == \E k \in 1 .. Len(handed) : IsSentinel(handed[k])

\* C35: once the sentinel has been handed to the batcher it is the last
\* record handed to it and the last record of the last chunk written, nothing
\* is pending, and from then on no step hands a record to the batcher or
\* writes to the connection, whatever is read and dispatched.
C35_SentinelIsLast ==
    /\ [](SentinelEmitted
            => /\ IsSentinel(handed[Len(handed)])
               /\ pendingBlocks_ = EmptyPending
               /\ Chunks # <<>>
               /\ LET last == Chunks[Len(Chunks)]
                  IN  /\ wire[Len(wire)] = last
                      /\ last.recs # <<>>
                      /\ IsSentinel(last.recs[Len(last.recs)]))
    /\ [][SentinelEmitted => (handed' = handed /\ wire' = wire)]_vars

\* C35 witness: the sentinel was emitted after both blocks of a file had been
\* sent, a BLOCK_MISSING for one of them arrived afterwards and was answered
\* Skipped, the pass after it has run, and the sentinel is still the last
\* record.
C35_Witness ==
    /\ pc = "top"
    /\ SentinelEmitted
    /\ Len(reqsReturned) = 2
    /\ reqsReturned[2].request_type = BLOCK_MISSING
    /\ lastMiss = [valid |-> TRUE, file |-> 0, idx |-> 1, res |-> "Skipped"]
    /\ Len(handed) = 3
    /\ IsSentinel(handed[3])

\* every block of every file of the table
AllBlocks ==
    UNION {{<<f, b>> : b \in 0 .. (numBytesToNumBlocks(files_[f].size) - 1)} :
             f \in FileIds}

\* C36: in a session in which no write to the connection has failed, the
\* step that emits the sentinel writes it and leaves the batcher empty, and
\* once the sentinel is emitted the records written to the connection are
\* one record for each block of each file, in some order, and then the
\* sentinel: the record of every block is in the chunk of the sentinel before
\* it, or in an earlier chunk.
C36_AllRecordsBeforeSentinel ==
    /\ []((SentinelEmitted /\ \A k \in 1 .. Len(wire) : wire[k].ok)
            => LET W == Written
                   n == Len(W)
               IN  /\ n = Cardinality(AllBlocks) + 1
                   /\ IsSentinel(W[n])
                   /\ {<<RecFile(W[k]), RecIdx(W[k])>> : k \in 1 .. (n - 1)} = AllBlocks
                   /\ pendingBlocks_ = EmptyPending)
    /\ [][(~SentinelEmitted /\ handed' # handed /\ IsSentinel(handed'[Len(handed')]))
            => /\ pendingBlocks_' = EmptyPending
               /\ Len(wire') = Len(wire) + 1
               /\ LET c == wire'[Len(wire')]
                  IN  /\ c.kind = "chunk"
                      /\ c.recs = pendingBlocks_.recs \o <<handed'[Len(handed')]>>]_vars

\* C36 witness: no write has failed, the sentinel was written in a chunk that
\* holds the records of the last blocks in front of it, and the records of
\* the other blocks were written in earlier chunks.
C36_Witness ==
    /\ SentinelEmitted
    /\ \A k \in 1 .. Len(wire) : wire[k].ok
    /\ Len(Chunks) >= 3
    /\ LET last == Chunks[Len(Chunks)]
       IN  /\ Len(last.recs) >= 3
           /\ ~IsSentinel(last.recs[1])
           /\ ~IsSentinel(last.recs[2])
           /\ IsSentinel(last.recs[Len(last.recs)])

\* the blocks a pass went over: those between the cursor and the end of each
\* state it discarded, and those the cursor of a head that stays has passed
WentOver(q, qn, w) ==
    LET k == Len(q) - Len(qn)
    IN  \/ \E j \in 1 .. k :
              /\ q[j].file = w[1]
              /\ q[j].overallIndex <= w[2]
              /\ w[2] < q[j].overallEnd
        \/ /\ qn # <<>>
           /\ q[k + 1].file = w[1]
           /\ q[k + 1].overallIndex <= w[2]
           /\ w[2] < qn[1].overallIndex

\* what holds of a block whose read failed in a pass, apart from how it can
\* be sent later: the pass has gone over it and left it unsent; the states
\* that stay in the queue are never moved back (a pass discards states from
\* the front and moves the cursor of the new head forwards, a dispatch adds a
\* state and touches no other); a repeated PREFETCH adds no state; and the
\* sentinel is not emitted while the block is unsent.
FailedBlockIsLeftBehind ==
    /\ [](\A e \in passErrors : ~sentBlocks[e[1]][e[2]] => ~SentinelEmitted)
    /\ [][/\ \A e \in passErrors' \ passErrors :
                /\ pc = "prefetch"
                /\ e \in badBlocks
                /\ ~sentBlocks'[e[1]][e[2]]
                /\ WentOver(prefetches_, prefetches_', e)
          /\ pc = "prefetch"
               => LET k == Len(prefetches_) - Len(prefetches_')
                  IN  /\ k >= 0
                      /\ prefetches_' # <<>>
                           => /\ SubSeq(prefetches_', 2, Len(prefetches_'))
                                   = SubSeq(prefetches_, k + 2, Len(prefetches_))
                              /\ prefetches_'[1].file = prefetches_[k + 1].file
                              /\ prefetches_'[1].overallEnd = prefetches_[k + 1].overallEnd
                              /\ prefetches_'[1].overallIndex
                                   >= prefetches_[k + 1].overallIndex
                      /\ \A f \in FileIds : \A b \in DOMAIN sentBlocks[f] :
                            (/\ WentOver(prefetches_, prefetches_', <<f, b>>)
                             /\ ~sentBlocks[f][b]
                             /\ <<f, b>> \in badBlocks)
                               => <<f, b>> \in passErrors'
          /\ (/\ pc = "dispatch" /\ request.has /\ request.request_type = PREFETCH
              /\ request.file_id \in prefetchedFiles)
               => prefetches_' = prefetches_]_vars

\* C37 as stated: a block whose read failed in a pass is left behind, and
\* afterwards it is marked sent by no step but the dispatch of a
\* BLOCK_MISSING for it.
C37_FailedBlockOnlyByMiss ==
    /\ FailedBlockIsLeftBehind
    /\ [][\A e \in passErrors :
             (~sentBlocks[e[1]][e[2]] /\ sentBlocks'[e[1]][e[2]])
                => /\ pc = "dispatch"
                   /\ request.has
                   /\ request.request_type = BLOCK_MISSING
                   /\ request.file_id = e[1]
                   /\ request.block_idx = e[2]]_vars

\* C37, amended: a block whose read failed in a pass is left behind, and
\* afterwards it is marked sent only by the dispatch of a BLOCK_MISSING for
\* it or by a pass that goes over it again in a state that still has the
\* block ahead of its cursor: the read-ahead of a later miss, or a state of
\* the whole file that is behind in the queue or is added by the first
\* PREFETCH of the file.
C37_FailedBlockNeedsNewAttempt ==
    /\ FailedBlockIsLeftBehind
    /\ [][\A e \in passErrors :
             (~sentBlocks[e[1]][e[2]] /\ sentBlocks'[e[1]][e[2]])
                => \/ /\ pc = "dispatch"
                      /\ request.has
                      /\ request.request_type = BLOCK_MISSING
                      /\ request.file_id = e[1]
                      /\ request.block_idx = e[2]
                   \/ /\ pc = "prefetch"
                      /\ WentOver(prefetches_, prefetches_', e)
                      /\ e \notin badBlocks]_vars

\* C37 witness: both files were prefetched, the read of block 1 of the second
\* failed in its pass, the queue is empty, every other block is sent, and the
\* server waits without having emitted the sentinel.
C37_Witness ==
    /\ pc = "poll"
    /\ blocking
    /\ prefetchedFiles = {0, 1}
    /\ prefetches_ = <<>>
    /\ passErrors = {<<1, 1>>}
    /\ ~sentBlocks[1][1]
    /\ sentBlocksCount[0] = NumBlocksOf(Mem, 0)
    /\ sentBlocksCount[1] = NumBlocksOf(Mem, 1) - 1
    /\ ~SentinelEmitted

\* C38: every chunk written to the connection holds at least one record: its
\* length field is positive and is the size of its records, and the chunk is
\* its 4 header bytes and those.  A step that starts with nothing pending
\* and hands no record to the batcher writes nothing to the connection (the
\* handshake apart): the flush before a blocking read, and so an idle loop
\* iteration, sends no bytes.
C38_NoEmptyChunk ==
    /\ [](\A k \in 1 .. Len(wire) :
             wire[k].kind = "chunk"
                => /\ wire[k].recs # <<>>
                   /\ wire[k].bytes = sizeofChunkHeader + SumWire(wire[k].recs)
                   /\ wire[k].bytes > sizeofChunkHeader
                   /\ WireInt32(wire[k].header) = wire[k].bytes - sizeofChunkHeader)
    /\ [][(pc # "start" /\ pendingBlocks_ = EmptyPending /\ handed' = handed)
            => (wire' = wire /\ sentSize_' = sentSize_)]_vars

\* C38 witness: the server has been through a whole idle iteration (a
\* blocking wait that timed out, the flush before the next one) and waits
\* again; nothing but the handshake was ever written.
C38_Witness ==
    /\ pc = "poll"
    /\ blocking
    /\ lastPoll = "timeout_blocking"
    /\ pendingBlocks_ = EmptyPending
    /\ handed = <<>>
    /\ wire = <<OkayWrite>>
    /\ sentSize_ = 0

\* C39: whenever the server is in adb_poll or adb_read, buffer_ holds at most
\* 11 bytes: at most 4, or the magic INCR followed by 1 to 7 bytes of a
\* request.  So the read has room for kReadBufferSize - 11 bytes at least,
\* and when adb_read returns 0 the stream has ended: it returned no byte
\* although the buffer had room, with or without bytes left on the way.
C39_BufferSmallAtPoll ==
    /\ [](pc = "poll"
            => /\ Len(buffer_) <= sizeofINCR + sizeofRequestCommand - 1
               /\ \/ Len(buffer_) <= sizeofINCR
                  \/ /\ SubSeq(buffer_, 1, sizeofINCR) = INCR
                     /\ Len(buffer_) - sizeofINCR < sizeofRequestCommand
               /\ kReadBufferSize - Len(buffer_) > 0)
    /\ [][(pc = "poll" /\ pc' # "poll")
            => \/ lastPoll' \in {"timeout_terminal", "timeout_blocking",
                                 "timeout_nonblocking", "pollfail"}
                    /\ inbound' = inbound
               \/ lastPoll' = "data"
                    /\ Len(inbound') > Len(inbound)
                    /\ Len(buffer_') - Len(buffer_) = Len(inbound') - Len(inbound)
                    /\ Len(buffer_') <= kReadBufferSize
               \/ lastPoll' \in {"eof", "readerror"}
                    /\ inbound' = inbound
                    /\ pc' = "dispatch"
                    /\ request' = DestroyRequest]_vars

\* C39 witness: the server polls with 11 bytes in the buffer, the magic and 7
\* bytes of a request.
C39_Witness ==
    /\ pc = "poll"
    /\ Len(buffer_) = sizeofINCR + sizeofRequestCommand - 1
    /\ SubSeq(buffer_, 1, sizeofINCR) = INCR
    /\ lastPoll = "data"

====
